---- MODULE Spec2Model ----
(***************************************************************************)
(* Model of the v-house booking back end: the rooms, reservations and      *)
(* blockedDates tables of convex/schema.ts, the mutations and queries of   *)
(* convex/reservations.ts and convex/rooms.ts.                             *)
(*                                                                         *)
(* Documents are kept in insertion order (the order ctx.db.query(...)      *)
(* .collect() returns them in); a document's _id is its position.          *)
(* Calendar dates are the strings "YYYY-MM-DD" the booking form produces;  *)
(* a date string is modelled by the triple <<year, month, day>> of its     *)
(* zero-padded fields, and the string comparison < by the lexicographic    *)
(* order of the triple.                                                    *)
(***************************************************************************)
EXTENDS Integers, Sequences, FiniteSets, TLC

VARIABLES rooms, reservations, blockedDates, now, ret, auth, seen, caller,
          form, rate, pager, deb, client

vars == <<rooms, reservations, blockedDates, now, ret, auth, seen, caller,
          form, rate, pager, deb, client>>

\* the browsers' side: auth is each browser's sessionStorage entry
\* vhouse_admin_auth, seen the last result each browser received from a
\* query, caller the browser that sent the last request to the back end
browser == <<auth, seen, caller>>

\* the components outside the booking back end: form is the state of the
\* booking form, rate the module state of the exchange-rate route with its
\* requests in flight, pager the state of a usePagination hook, deb the
\* state of a useDebouncedCallback hook, and client the pages' end of their
\* connection to the deployment: the mutations the pages sent that have not
\* run yet, and for each browser the page it has open, with the state of
\* that page and the result its useQuery subscription delivered last
widgets == <<form, rate, pager, deb, client>>

(***************************************************************************)
(* Bounds of the model.                                                    *)
(***************************************************************************)
MaxRooms == 2
MaxRes == 2
MaxBlocked == 1
MaxNow == 1
NumDays == 3

(***************************************************************************)
(* Input sets.                                                             *)
(***************************************************************************)
DateWindow ==
    << <<2026, 2, 28>>, <<2026, 3, 1>>, <<2026, 3, 2>>,
       <<2026, 3, 3>>, <<2026, 3, 4>>, <<2026, 3, 5>> >>

Dates == { DateWindow[i] : i \in 1..NumDays }

Emails == {"kim@example.com", "lee@example.com"}

Statuses == {"pending", "confirmed", "cancelled", "completed"}

Orders == 1..MaxRooms

SeedPrice == 50000

\* an optional argument: Undefined when absent, Some(v) when supplied
Undefined == <<>>

Some(v) == <<v>>

NoEmail == ""

\* the default of usePagination's itemsPerPage option
DefaultItemsPerPage == 10

(***************************************************************************)
(* Calendar arithmetic of the JavaScript Date object in UTC, in days:      *)
(* new Date("YYYY-MM-DD") is midnight UTC of that day, toISOString()       *)
(* .split("T")[0] is the UTC date of a time value.                         *)
(***************************************************************************)
IsLeapYear(y) == (y % 4 = 0 /\ y % 100 # 0) \/ y % 400 = 0

DaysInMonth(y, m) ==
    IF m = 2 THEN (IF IsLeapYear(y) THEN 29 ELSE 28)
    ELSE IF m \in {4, 6, 9, 11} THEN 30 ELSE 31

LeapYearsBefore(y) == ((y - 1) \div 4) - ((y - 1) \div 100) + ((y - 1) \div 400)

DaysBeforeYear(y) ==
    365 * (y - 1970) + LeapYearsBefore(y) - LeapYearsBefore(1970)

RECURSIVE DaysBeforeMonth(_, _)
DaysBeforeMonth(y, m) ==
    IF m = 1 THEN 0 ELSE DaysBeforeMonth(y, m - 1) + DaysInMonth(y, m - 1)

\* new Date(s).getTime() / 86400000
DateParse(s) == DaysBeforeYear(s[1]) + DaysBeforeMonth(s[1], s[2]) + s[3] - 1

\* new Date(t * 86400000).toISOString().split("T")[0]
ToISODate(t) ==
    LET y == CHOOSE yy \in 2025..2027 :
                 DaysBeforeYear(yy) <= t /\ t < DaysBeforeYear(yy + 1)
        r == t - DaysBeforeYear(y)
        m == CHOOSE mm \in 1..12 :
                 DaysBeforeMonth(y, mm) <= r
                 /\ r < DaysBeforeMonth(y, mm) + DaysInMonth(y, mm)
    IN  <<y, m, r - DaysBeforeMonth(y, m) + 1>>

\* a < b on two date strings
StrLess(a, b) ==
    \/ a[1] < b[1]
    \/ a[1] = b[1] /\ a[2] < b[2]
    \/ a[1] = b[1] /\ a[2] = b[2] /\ a[3] < b[3]

(***************************************************************************)
(* rooms.getAvailableRooms                                                 *)
(***************************************************************************)
\* a variant with closed ranges: the check-out day counts as occupied
isOverlapping_Closed(resCheckIn, resCheckOut, checkIn, checkOut) ==
    ~StrLess(checkOut, resCheckIn) /\ ~StrLess(resCheckOut, checkIn)

isOverlapping(resCheckIn, resCheckOut, checkIn, checkOut) ==
    StrLess(resCheckIn, checkOut) /\ StrLess(checkIn, resCheckOut)

\* a variant whose loop runs while current <= endDate
RECURSIVE DatesLoop_Inclusive(_, _)
DatesLoop_Inclusive(current, endDate) ==
    IF current <= endDate
    THEN <<ToISODate(current)>> \o DatesLoop_Inclusive(current + 1, endDate)
    ELSE <<>>

RECURSIVE DatesLoop(_, _)
DatesLoop(current, endDate) ==
    IF current < endDate
    THEN <<ToISODate(current)>> \o DatesLoop(current + 1, endDate)
    ELSE <<>>

\* a variant that advances the day before pushing it
getDatesInRange_SkipsFirst(start, end) == DatesLoop(DateParse(start) + 1, DateParse(end))

getDatesInRange(start, end) == DatesLoop(DateParse(start), DateParse(end))

Includes(seq, x) == \E i \in 1..Len(seq) : seq[i] = x

\* table.filter(p): the ids of the documents kept, in insertion order
RECURSIVE Ascending(_)
Ascending(S) ==
    IF S = {} THEN <<>>
    ELSE LET top == CHOOSE i \in S : \A j \in S : j <= i
         IN  Append(Ascending(S \ {top}), top)

\* ids.sort((a, b) => a.order - b.order): a stable sort on the order field
RECURSIVE InsertByOrder(_, _)
InsertByOrder(sorted, id) ==
    IF sorted = <<>> THEN <<id>>
    ELSE IF rooms[sorted[Len(sorted)]].order <= rooms[id].order
         THEN Append(sorted, id)
         ELSE Append(InsertByOrder(SubSeq(sorted, 1, Len(sorted) - 1), id),
                     sorted[Len(sorted)])

\* a variant that returns the rooms in insertion order
SortByOrder_Unsorted(ids) == ids

RECURSIVE SortByOrder(_)
SortByOrder(ids) ==
    IF ids = <<>> THEN <<>>
    ELSE InsertByOrder(SortByOrder(SubSeq(ids, 1, Len(ids) - 1)), ids[Len(ids)])

\* variants of the status filter
IsActiveStatus_ConfirmedOnly(s) == s = "confirmed"

IsActiveStatus_NotCancelled(s) == s # "cancelled"

IsActiveStatus(s) == s = "pending" \/ s = "confirmed"

bookedRoomIds(checkIn, checkOut) ==
    LET hit(i) == /\ IsActiveStatus(reservations[i].status)
                  /\ isOverlapping(reservations[i].checkIn, reservations[i].checkOut,
                                   checkIn, checkOut)
        ids == Ascending({ i \in 1..Len(reservations) : hit(i) })
    IN  [k \in 1..Len(ids) |-> reservations[ids[k]].roomId]

blockedRoomIds(checkIn, checkOut) ==
    LET requestedDates == getDatesInRange(checkIn, checkOut)
        hit(i) == Includes(requestedDates, blockedDates[i].date)
        ids == Ascending({ i \in 1..Len(blockedDates) : hit(i) })
    IN  [k \in 1..Len(ids) |-> blockedDates[ids[k]].roomId]

\* the ids of the rooms returned, in the order returned
getAvailableRooms(checkIn, checkOut) ==
    LET allRooms == Ascending({ r \in 1..Len(rooms) : rooms[r].isAvailable = TRUE })
        booked == bookedRoomIds(checkIn, checkOut)
        blocked == blockedRoomIds(checkIn, checkOut)
        availableRooms == SelectSeq(allRooms,
            LAMBDA r : ~Includes(booked, r) /\ ~Includes(blocked, r))
    IN  SortByOrder(availableRooms)

(***************************************************************************)
(* rooms.list and rooms.listAll: the ids of the rooms returned, in the     *)
(* order returned                                                          *)
(***************************************************************************)
\* a variant of list without the isAvailable filter
RoomsList_Unfiltered == SortByOrder(Ascending(1..Len(rooms)))

RoomsList ==
    SortByOrder(Ascending({ r \in 1..Len(rooms) : rooms[r].isAvailable = TRUE }))

RoomsListAll == SortByOrder(Ascending(1..Len(rooms)))

(***************************************************************************)
(* reservations.getStats                                                   *)
(***************************************************************************)
\* reservations.filter(r => r.status === status).length
CountStatus(status) ==
    Len(Ascending({ i \in 1..Len(reservations) : reservations[i].status = status }))

\* ids.reduce((sum, r) => sum + r.totalPrice, 0)
RECURSIVE SumTotalPrice(_)
SumTotalPrice(ids) ==
    IF ids = <<>> THEN 0
    ELSE SumTotalPrice(SubSeq(ids, 1, Len(ids) - 1))
             + reservations[ids[Len(ids)]].totalPrice

\* a variant of getStats that counts every reservation that was not cancelled
getStats_NotCancelled ==
    [total |-> Len(reservations),
     pending |-> CountStatus("pending"),
     confirmed |-> CountStatus("confirmed"),
     cancelled |-> CountStatus("cancelled"),
     completed |-> CountStatus("completed"),
     totalRevenue |-> SumTotalPrice(Ascending(
         { i \in 1..Len(reservations) : reservations[i].status # "cancelled" }))]

\* a variant of getStats that keeps the statistics it computed and computes
\* them anew when the number of reservations has changed
getStats_Memoised ==
    LET kept == { c \in Emails : /\ seen[c].stats # Undefined
                                 /\ seen[c].stats[1].total = Len(reservations) }
    IN  IF kept # {} THEN seen[CHOOSE c \in kept : TRUE].stats[1]
        ELSE [total |-> Len(reservations),
              pending |-> CountStatus("pending"),
              confirmed |-> CountStatus("confirmed"),
              cancelled |-> CountStatus("cancelled"),
              completed |-> CountStatus("completed"),
              totalRevenue |-> SumTotalPrice(Ascending(
                  { i \in 1..Len(reservations) :
                      reservations[i].status = "confirmed"
                          \/ reservations[i].status = "completed" }))]

getStats ==
    [total |-> Len(reservations),
     pending |-> CountStatus("pending"),
     confirmed |-> CountStatus("confirmed"),
     cancelled |-> CountStatus("cancelled"),
     completed |-> CountStatus("completed"),
     totalRevenue |-> SumTotalPrice(Ascending(
         { i \in 1..Len(reservations) :
             reservations[i].status = "confirmed"
                 \/ reservations[i].status = "completed" }))]

(***************************************************************************)
(* The state after deployment: empty tables.                               *)
(***************************************************************************)
\* What the last call gave back: the document id it returned (for cancel, the
\* id it was called with), the email a cancel call supplied (NoEmail for the
\* other calls) and the error it threw ("none" when it returned).
Returned(id, email, error) == [id |-> id, email |-> email, error |-> error]

Init ==
    /\ rooms = <<>>
    /\ reservations = <<>>
    /\ blockedDates = <<>>
    /\ now = 0
    /\ ret = Returned(0, NoEmail, "none")
    /\ auth = [c \in Emails |-> FALSE]
    /\ seen = [c \in Emails |-> [avail |-> Undefined, stats |-> Undefined]]
    /\ caller = NoEmail
    /\ form = [checkIn |-> Undefined, checkOut |-> Undefined,
               selectedRoom |-> Undefined, isSubmitting |-> FALSE,
               isSuccess |-> FALSE]
    /\ rate = [apiKey |-> TRUE, cachedData |-> Undefined, inflight |-> <<>>,
               resp |-> Undefined]
    /\ pager = [currentPage |-> 1, itemsPerPage |-> DefaultItemsPerPage,
                items |-> <<>>,
                seen |-> [currentPage |-> 1, itemsPerPage |-> DefaultItemsPerPage]]
    /\ deb = [timeoutId |-> 0, queued |-> Undefined, timers |-> {},
              calls |-> <<>>, mounted |-> TRUE, ran |-> <<>>]
    /\ client = [sent |-> <<>>,
                 page |-> [c \in Emails |->
                              [at |-> "other", statusFilter |-> "all",
                               list |-> Undefined, isSeeding |-> FALSE]]]

\* the clock behind Date.now()
Tick ==
    /\ now < MaxNow
    /\ now' = now + 1
    /\ UNCHANGED <<rooms, reservations, blockedDates, ret>>

(***************************************************************************)
(* convex/rooms.ts mutations                                               *)
(***************************************************************************)
RoomsCreate(order, price) ==
    /\ Len(rooms) < MaxRooms
    /\ rooms' = Append(rooms, [order |-> order, price |-> price, isAvailable |-> TRUE])
    /\ ret' = Returned(Len(rooms) + 1, NoEmail, "none")
    /\ UNCHANGED <<reservations, blockedDates, now>>

\* a variant of update that writes every field, an absent isAvailable as true
RoomsUpdate_ResetsAvailability(roomId, updates) ==
    /\ IF roomId \in 1..Len(rooms)
       THEN LET cleanUpdates == { f \in DOMAIN updates : updates[f] # Undefined }
                patched == [f \in DOMAIN rooms[roomId] |->
                               IF f \in cleanUpdates THEN updates[f][1]
                               ELSE IF f = "isAvailable" THEN TRUE
                               ELSE rooms[roomId][f]]
            IN  /\ rooms' = [rooms EXCEPT ![roomId] = patched]
                /\ ret' = Returned(roomId, NoEmail, "none")
       ELSE /\ UNCHANGED rooms
            /\ ret' = Returned(roomId, NoEmail, "nonexistent_document")
    /\ UNCHANGED <<reservations, blockedDates, now>>

\* a variant of update that re-prices the room's reservations
RoomsUpdate_Reprices(roomId, updates) ==
    /\ IF roomId \in 1..Len(rooms)
       THEN LET cleanUpdates == { f \in DOMAIN updates : updates[f] # Undefined }
                patched == [f \in DOMAIN rooms[roomId] |->
                               IF f \in cleanUpdates THEN updates[f][1]
                               ELSE rooms[roomId][f]]
            IN  /\ rooms' = [rooms EXCEPT ![roomId] = patched]
                /\ reservations' = [i \in 1..Len(reservations) |->
                       IF reservations[i].roomId = roomId
                       THEN [reservations[i] EXCEPT !.totalPrice = patched.price]
                       ELSE reservations[i]]
                /\ ret' = Returned(roomId, NoEmail, "none")
       ELSE /\ UNCHANGED <<rooms, reservations>>
            /\ ret' = Returned(roomId, NoEmail, "nonexistent_document")
    /\ UNCHANGED <<blockedDates, now>>

\* updates: a value or Undefined for each optional argument
RoomsUpdate(roomId, updates) ==
    /\ IF roomId \in 1..Len(rooms)
       THEN LET cleanUpdates == { f \in DOMAIN updates : updates[f] # Undefined }
                patched == [f \in DOMAIN rooms[roomId] |->
                               IF f \in cleanUpdates THEN updates[f][1]
                               ELSE rooms[roomId][f]]
            IN  /\ rooms' = [rooms EXCEPT ![roomId] = patched]
                /\ ret' = Returned(roomId, NoEmail, "none")
       ELSE /\ UNCHANGED rooms
            /\ ret' = Returned(roomId, NoEmail, "nonexistent_document")
    /\ UNCHANGED <<reservations, blockedDates, now>>

SeedCount == 6

\* roomsData: six rooms of the same price, available, in display order
roomsData ==
    [k \in 1..SeedCount |-> [order |-> k, price |-> SeedPrice, isAvailable |-> TRUE]]

\* the rooms table after seedRooms ran on the table existingRooms
SeedRoomsTable_NoGuard(existingRooms) == existingRooms \o roomsData

SeedRoomsTable(existingRooms) ==
    IF Len(existingRooms) > 0 THEN existingRooms
    ELSE existingRooms \o roomsData

\* seedRooms; ret.id is the count it returns
SeedRooms ==
    /\ rooms' = SeedRoomsTable(rooms)
    /\ ret' = Returned(IF Len(rooms) > 0 THEN Len(rooms) ELSE Len(roomsData),
                       NoEmail, "none")
    /\ UNCHANGED <<reservations, blockedDates, now>>

\* the sequence without its i-th element
RemoveAt(seq, i) == SubSeq(seq, 1, i - 1) \o SubSeq(seq, i + 1, Len(seq))

(***************************************************************************)
(* blockedDates rows are inserted by the administrator; no mutation of the *)
(* repository writes the table.                                            *)
(***************************************************************************)
BlockDate(roomId, date) ==
    /\ Len(blockedDates) < MaxBlocked
    /\ roomId \in 1..Len(rooms)
    /\ blockedDates' = Append(blockedDates, [roomId |-> roomId, date |-> date])
    /\ ret' = Returned(Len(blockedDates) + 1, NoEmail, "none")
    /\ UNCHANGED <<rooms, reservations, now>>

(***************************************************************************)
(* convex/reservations.ts mutations                                        *)
(***************************************************************************)
\* a variant of create that sets only createdAt to the current time
Create_UpdatedAtUnset(roomId, guestEmail, checkIn, checkOut, totalPrice) ==
    /\ Len(reservations) < MaxRes
    /\ reservations' = Append(reservations,
           [roomId |-> roomId, guestEmail |-> guestEmail,
            checkIn |-> checkIn, checkOut |-> checkOut,
            totalPrice |-> totalPrice, status |-> "pending",
            createdAt |-> now, updatedAt |-> 0])
    /\ ret' = Returned(Len(reservations) + 1, NoEmail, "none")
    /\ UNCHANGED <<rooms, blockedDates, now>>

\* a variant of create that refuses a stay overlapping an active reservation
\* of the room
Create_RejectsConflict(roomId, guestEmail, checkIn, checkOut, totalPrice) ==
    /\ Len(reservations) < MaxRes
    /\ IF \E i \in 1..Len(reservations) :
              /\ reservations[i].roomId = roomId
              /\ IsActiveStatus(reservations[i].status)
              /\ isOverlapping(reservations[i].checkIn, reservations[i].checkOut,
                               checkIn, checkOut)
       THEN /\ ret' = Returned(0, NoEmail, "conflict")
            /\ UNCHANGED reservations
       ELSE /\ reservations' = Append(reservations,
                   [roomId |-> roomId, guestEmail |-> guestEmail,
                    checkIn |-> checkIn, checkOut |-> checkOut,
                    totalPrice |-> totalPrice, status |-> "pending",
                    createdAt |-> now, updatedAt |-> now])
            /\ ret' = Returned(Len(reservations) + 1, NoEmail, "none")
    /\ UNCHANGED <<rooms, blockedDates, now>>

Create(roomId, guestEmail, checkIn, checkOut, totalPrice) ==
    /\ Len(reservations) < MaxRes
    /\ reservations' = Append(reservations,
           [roomId |-> roomId, guestEmail |-> guestEmail,
            checkIn |-> checkIn, checkOut |-> checkOut,
            totalPrice |-> totalPrice, status |-> "pending",
            createdAt |-> now, updatedAt |-> now])
    /\ ret' = Returned(Len(reservations) + 1, NoEmail, "none")
    /\ UNCHANGED <<rooms, blockedDates, now>>

\* the transitions listed in the comment above updateStatus
IntendedTransition(from, to) ==
    \/ from = "pending" /\ to = "confirmed"
    \/ from \in {"pending", "confirmed"} /\ to = "cancelled"
    \/ from = "confirmed" /\ to = "completed"

\* a variant of updateStatus that writes nothing when the status is the same
UpdateStatus_SkipsSameStatus(reservationId, status) ==
    /\ IF reservationId \notin 1..Len(reservations)
       THEN /\ UNCHANGED reservations
            /\ ret' = Returned(reservationId, NoEmail, "nonexistent_document")
       ELSE /\ IF reservations[reservationId].status = status
               THEN UNCHANGED reservations
               ELSE reservations' = [reservations EXCEPT
                        ![reservationId].status = status,
                        ![reservationId].updatedAt = now]
            /\ ret' = Returned(reservationId, NoEmail, "none")
    /\ UNCHANGED <<rooms, blockedDates, now>>

\* a variant of updateStatus that enforces the intended transitions
UpdateStatus_Lifecycle(reservationId, status) ==
    /\ IF reservationId \notin 1..Len(reservations)
       THEN /\ UNCHANGED reservations
            /\ ret' = Returned(reservationId, NoEmail, "nonexistent_document")
       ELSE IF IntendedTransition(reservations[reservationId].status, status)
       THEN /\ reservations' = [reservations EXCEPT
                    ![reservationId].status = status,
                    ![reservationId].updatedAt = now]
            /\ ret' = Returned(reservationId, NoEmail, "none")
       ELSE /\ UNCHANGED reservations
            /\ ret' = Returned(reservationId, NoEmail, "invalid_state")
    /\ UNCHANGED <<rooms, blockedDates, now>>

\* a variant of updateStatus that refuses to confirm a reservation while
\* another confirmed reservation of the room overlaps it
UpdateStatus_RejectsConflict(reservationId, status) ==
    /\ IF reservationId \notin 1..Len(reservations)
       THEN /\ UNCHANGED reservations
            /\ ret' = Returned(reservationId, NoEmail, "nonexistent_document")
       ELSE IF /\ status = "confirmed"
               /\ \E i \in 1..Len(reservations) :
                      /\ i # reservationId
                      /\ reservations[i].roomId = reservations[reservationId].roomId
                      /\ reservations[i].status = "confirmed"
                      /\ isOverlapping(reservations[i].checkIn, reservations[i].checkOut,
                                       reservations[reservationId].checkIn,
                                       reservations[reservationId].checkOut)
       THEN /\ UNCHANGED reservations
            /\ ret' = Returned(reservationId, NoEmail, "conflict")
       ELSE /\ reservations' = [reservations EXCEPT
                    ![reservationId].status = status,
                    ![reservationId].updatedAt = now]
            /\ ret' = Returned(reservationId, NoEmail, "none")
    /\ UNCHANGED <<rooms, blockedDates, now>>

UpdateStatus(reservationId, status) ==
    /\ IF reservationId \in 1..Len(reservations)
       THEN /\ reservations' = [reservations EXCEPT
                    ![reservationId].status = status,
                    ![reservationId].updatedAt = now]
            /\ ret' = Returned(reservationId, NoEmail, "none")
       ELSE /\ UNCHANGED reservations
            /\ ret' = Returned(reservationId, NoEmail, "nonexistent_document")
    /\ UNCHANGED <<rooms, blockedDates, now>>

\* variants of the checks of cancel
CancelError_NoStatusCheck(reservationId, email) ==
    IF reservationId \notin 1..Len(reservations) THEN "not_found"
    ELSE IF reservations[reservationId].guestEmail # email THEN "unauthorized"
    ELSE "none"

CancelError_StatusFirst(reservationId, email) ==
    IF reservationId \notin 1..Len(reservations) THEN "not_found"
    ELSE IF reservations[reservationId].status # "pending" THEN "invalid_state"
    ELSE IF reservations[reservationId].guestEmail # email THEN "unauthorized"
    ELSE "none"

CancelError_MissingAsUnauthorized(reservationId, email) ==
    IF reservationId \notin 1..Len(reservations) THEN "unauthorized"
    ELSE IF reservations[reservationId].guestEmail # email THEN "unauthorized"
    ELSE IF reservations[reservationId].status # "pending" THEN "invalid_state"
    ELSE "none"

CancelError(reservationId, email) ==
    IF reservationId \notin 1..Len(reservations) THEN "not_found"
    ELSE IF reservations[reservationId].guestEmail # email THEN "unauthorized"
    ELSE IF reservations[reservationId].status # "pending" THEN "invalid_state"
    ELSE "none"

\* a variant of cancel that leaves updatedAt as it was
Cancel_StaleUpdatedAt(reservationId, email) ==
    /\ IF CancelError(reservationId, email) = "none"
       THEN reservations' = [reservations EXCEPT ![reservationId].status = "cancelled"]
       ELSE UNCHANGED reservations
    /\ ret' = Returned(reservationId, email, CancelError(reservationId, email))
    /\ UNCHANGED <<rooms, blockedDates, now>>

Cancel(reservationId, email) ==
    /\ IF CancelError(reservationId, email) = "none"
       THEN reservations' = [reservations EXCEPT
                ![reservationId].status = "cancelled",
                ![reservationId].updatedAt = now]
       ELSE UNCHANGED reservations
    /\ ret' = Returned(reservationId, email, CancelError(reservationId, email))
    /\ UNCHANGED <<rooms, blockedDates, now>>

(***************************************************************************)
(* Spec: the reservation ledger under the guest and administrator calls,   *)
(* with the clock running.                                                 *)
(***************************************************************************)
StayIn == DateWindow[1]

StayOut == DateWindow[2]

Next ==
    \/ Tick /\ UNCHANGED <<browser, widgets>>
    \/ RoomsCreate(1, SeedPrice) /\ UNCHANGED <<browser, widgets>>
    \/ \E r \in 1..MaxRooms, e \in Emails :
           Create(r, e, StayIn, StayOut, SeedPrice) /\ UNCHANGED <<browser, widgets>>
    \/ \E id \in 1..MaxRes, s \in Statuses :
           UpdateStatus(id, s) /\ UNCHANGED <<browser, widgets>>
    \/ \E id \in 1..MaxRes, e \in Emails : Cancel(id, e) /\ UNCHANGED <<browser, widgets>>

Spec == Init /\ [][Next]_vars

(***************************************************************************)
(* SpecAvail: the three tables under the calls that change what            *)
(* getAvailableRooms reads, within one clock instant.  cancel writes what  *)
(* updateStatus(id, "cancelled") writes, which is among the calls.         *)
(***************************************************************************)
RoomPatches ==
    [order : {Some(o) : o \in Orders} \cup {Undefined},
     price : {Undefined},
     isAvailable : {Some(b) : b \in BOOLEAN} \cup {Undefined}]

AvailEmail == "kim@example.com"

\* the stays created: create compares no dates, so next to the stays with
\* check-in before check-out one of no night and one that ends before it
\* starts
Stays ==
    { stay \in Dates \X Dates : StrLess(stay[1], stay[2]) }
        \cup { <<DateWindow[2], DateWindow[2]>>, <<DateWindow[NumDays], DateWindow[1]>> }

NextAvail ==
    \/ \E o \in Orders : RoomsCreate(o, SeedPrice) /\ UNCHANGED <<browser, widgets>>
    \/ \E r \in 1..MaxRooms, u \in RoomPatches :
           RoomsUpdate(r, u) /\ UNCHANGED <<browser, widgets>>
    \/ \E r \in 1..MaxRooms, d \in Dates : BlockDate(r, d) /\ UNCHANGED <<browser, widgets>>
    \/ \E r \in 1..MaxRooms, stay \in Stays :
           Create(r, AvailEmail, stay[1], stay[2], SeedPrice) /\ UNCHANGED <<browser, widgets>>
    \/ \E id \in 1..MaxRes, s \in Statuses :
           UpdateStatus(id, s) /\ UNCHANGED <<browser, widgets>>

SpecAvail == Init /\ [][NextAvail]_vars

(***************************************************************************)
(* Vocabulary of the availability properties.  Dates are compared as days  *)
(* of the calendar, not as strings.                                        *)
(***************************************************************************)
Earlier(a, b) == DateParse(a) < DateParse(b)

RoomIds == 1..Len(rooms)

ResIds == 1..Len(reservations)

Queries == Dates \X Dates

\* the rooms getAvailableRooms returns for the query q
Returns(q) ==
    LET res == getAvailableRooms(q[1], q[2])
    IN  { res[k] : k \in 1..Len(res) }

Bookable == { r \in RoomIds : rooms[r].isAvailable }

ActiveRes == { i \in ResIds : reservations[i].status \in {"pending", "confirmed"} }

\* the half-open rule: res.checkIn < checkOut and res.checkOut > checkIn
Overlaps(i, q) ==
    /\ Earlier(reservations[i].checkIn, q[2])
    /\ Earlier(q[1], reservations[i].checkOut)

\* rooms with an active reservation overlapping the query
OverlappedRooms(q) ==
    { reservations[i].roomId : i \in { j \in ActiveRes : Overlaps(j, q) } }

\* rooms with a blocked date d, checkIn <= d < checkOut
BlockedRooms(q) ==
    { blockedDates[b].roomId :
        b \in { c \in 1..Len(blockedDates) :
                  /\ ~Earlier(blockedDates[c].date, q[1])
                  /\ Earlier(blockedDates[c].date, q[2]) } }

\* C1: a room with a pending or confirmed reservation that overlaps the query
\* range under the half-open rule is never in the result of getAvailableRooms.
C1_ActiveOverlapExcluded ==
    \A q \in Queries :
        LET returned == Returns(q)
        IN  \A i \in ActiveRes :
                Overlaps(i, q) => reservations[i].roomId \notin returned

C1_Witness ==
    \E q \in Queries : \E i \in ActiveRes :
        /\ Overlaps(i, q)
        /\ reservations[i].roomId \in Bookable
        /\ reservations[i].roomId \notin BlockedRooms(q)
        /\ reservations[i].roomId \notin Returns(q)

\* C2: a bookable room whose overlapping reservations are all cancelled or
\* completed, and which has no blocked date in the range, is in the result.
C2_InactiveNeverExcludes ==
    \A q \in Queries :
        LET returned == Returns(q)
            blocked == BlockedRooms(q)
        IN  \A r \in Bookable :
                ( /\ \A i \in ResIds :
                         (reservations[i].roomId = r /\ Overlaps(i, q))
                             => reservations[i].status \in {"cancelled", "completed"}
                  /\ r \notin blocked )
                => r \in returned

C2_Witness ==
    \E q \in Queries : \E i \in ResIds : \E j \in ResIds :
        /\ reservations[i].roomId = reservations[j].roomId
        /\ reservations[i].status = "cancelled" /\ Overlaps(i, q)
        /\ reservations[j].status = "completed" /\ Overlaps(j, q)
        /\ reservations[i].roomId \in Returns(q)

\* C3: a room with a blocked date d, checkIn <= d < checkOut, is never in the
\* result, whatever reservations it has.
C3_BlockedDateExcludes ==
    \A q \in Queries :
        LET returned == Returns(q)
        IN  \A r \in BlockedRooms(q) : r \notin returned

\* the blocked date is the first of March, the range starts on the last day of
\* February: the day loop crosses the end of the month
C3_Witness ==
    \E q \in Queries : \E r \in BlockedRooms(q) :
        /\ r \in Bookable
        /\ r \notin OverlappedRooms(q)
        /\ \E i \in ResIds : /\ reservations[i].roomId = r
                             /\ reservations[i].status = "cancelled"
        /\ blockedDates[1].date = <<2026, 3, 1>>
        /\ q[1] = <<2026, 2, 28>>
        /\ r \notin Returns(q)

\* C4: same-day turnover: a bookable room without a blocked date in the range,
\* all of whose active reservations end on the query's check-in day or start on
\* its check-out day, is in the result.
C4_SameDayTurnover ==
    \A q \in Queries :
        LET returned == Returns(q)
            blocked == BlockedRooms(q)
        IN  \A r \in Bookable :
                ( /\ r \notin blocked
                  /\ \A i \in ActiveRes :
                         reservations[i].roomId = r
                             => \/ reservations[i].checkOut = q[1]
                                \/ reservations[i].checkIn = q[2] )
                => r \in returned

\* a confirmed reservation ending on the check-in day of a query that returns
\* its room, and an active one starting on the check-out day of such a query
C4_Witness ==
    /\ \E q \in Queries : \E i \in ActiveRes :
           /\ Earlier(q[1], q[2])
           /\ reservations[i].status = "confirmed"
           /\ reservations[i].checkOut = q[1]
           /\ reservations[i].roomId \in Returns(q)
    /\ \E q \in Queries : \E j \in ActiveRes :
           /\ Earlier(q[1], q[2])
           /\ reservations[j].checkIn = q[2]
           /\ reservations[j].roomId \in Returns(q)

IsSortedByOrder(ids) ==
    \A k \in 1..(Len(ids) - 1) : rooms[ids[k]].order <= rooms[ids[k + 1]].order

\* C5: for checkIn < checkOut the result is exactly the bookable rooms minus
\* the rooms with an overlapping active reservation and the rooms with a
\* blocked date in the range, each once, in non-decreasing display order.
C5_ExactResult ==
    \A q \in Queries :
        Earlier(q[1], q[2]) =>
            LET res == getAvailableRooms(q[1], q[2])
                expected == Bookable \ (OverlappedRooms(q) \cup BlockedRooms(q))
            IN  /\ { res[k] : k \in 1..Len(res) } = expected
                /\ Len(res) = Cardinality(expected)
                /\ IsSortedByOrder(res)

\* both rooms are returned for one range, the room created second first, while
\* a reservation and a blocked date take a room out for another range
C5_Witness ==
    /\ Len(rooms) = 2
    /\ rooms[2].order < rooms[1].order
    /\ \E q \in Queries :
           Earlier(q[1], q[2]) /\ getAvailableRooms(q[1], q[2]) = <<2, 1>>
    /\ \E q \in Queries :
           Earlier(q[1], q[2]) /\ OverlappedRooms(q) # {} /\ BlockedRooms(q) # {}
               /\ getAvailableRooms(q[1], q[2]) = <<>>

\* C6 as stated: a zero-night query returns all bookable rooms.
C6_ZeroNightReturnsAllBookable ==
    \A d \in Dates : Returns(<<d, d>>) = Bookable

\* C6 as amended: a zero-night query (d, d) applies no blocked date and returns
\* the bookable rooms except those with an active reservation that has
\* checkIn < d < checkOut.
C6_ZeroNightAmended ==
    \A d \in Dates :
        Returns(<<d, d>>)
            = Bookable \ { reservations[i].roomId :
                             i \in { j \in ActiveRes :
                                       /\ Earlier(reservations[j].checkIn, d)
                                       /\ Earlier(d, reservations[j].checkOut) } }

C6_Witness ==
    \E d \in Dates : \E i \in ActiveRes :
        /\ Earlier(reservations[i].checkIn, d)
        /\ Earlier(d, reservations[i].checkOut)
        /\ reservations[i].roomId \in Bookable
        /\ reservations[i].roomId \notin Returns(<<d, d>>)
        /\ \E b \in 1..Len(blockedDates) :
               /\ blockedDates[b].date = d
               /\ blockedDates[b].roomId # reservations[i].roomId
               /\ blockedDates[b].roomId \in Returns(<<d, d>>)

(***************************************************************************)
(* Guest cancellation (reservations.cancel), under Spec.                   *)
(***************************************************************************)
CancelIds == 1..MaxRes

StoreUnchanged == UNCHANGED <<rooms, reservations, blockedDates>>

\* C7: guest cancel with the matching email on a reservation that is not
\* pending fails with the invalid-state error and leaves the reservation's
\* status and updatedAt as they were.
C7_CancelNotPendingRejected ==
    [][\A id \in CancelIds : \A e \in Emails :
          ( /\ Cancel(id, e)
            /\ id \in ResIds
            /\ reservations[id].guestEmail = e
            /\ reservations[id].status # "pending" )
          => /\ ret'.error = "invalid_state"
             /\ reservations'[id].status = reservations[id].status
             /\ reservations'[id].updatedAt = reservations[id].updatedAt]_vars

C7_Witness ==
    /\ ret.error = "invalid_state"
    /\ ret.id \in ResIds
    /\ reservations[ret.id].guestEmail = ret.email
    /\ reservations[ret.id].status = "confirmed"
    /\ reservations[ret.id].updatedAt < now

\* C8: guest cancel with an email other than the stored guestEmail fails with
\* the unauthorized error and changes nothing in the store, whatever the
\* reservation's status.
C8_CancelWrongEmailRejected ==
    [][\A id \in CancelIds : \A e \in Emails :
          ( /\ Cancel(id, e)
            /\ id \in ResIds
            /\ reservations[id].guestEmail # e )
          => /\ ret'.error = "unauthorized"
             /\ StoreUnchanged]_vars

C8_Witness ==
    /\ ret.error = "unauthorized"
    /\ ret.id \in ResIds
    /\ reservations[ret.id].guestEmail # ret.email
    /\ reservations[ret.id].status = "pending"
    /\ \E j \in ResIds : reservations[j].guestEmail = ret.email

\* C9: guest cancel with an id that resolves to no stored reservation fails
\* with the not-found error and changes nothing in the store.
C9_CancelUnknownIdRejected ==
    [][\A id \in CancelIds : \A e \in Emails :
          (Cancel(id, e) /\ id \notin ResIds)
          => /\ ret'.error = "not_found"
             /\ StoreUnchanged]_vars

C9_Witness ==
    /\ ret.error = "not_found"
    /\ ret.id \notin ResIds
    /\ \E j \in ResIds : /\ reservations[j].guestEmail = ret.email
                         /\ reservations[j].status = "pending"

\* C10: guest cancel with the matching email on a pending reservation returns,
\* sets that reservation's status to cancelled and its updatedAt to the current
\* time, and changes no other field, no other reservation and no other table.
C10_CancelPendingSucceeds ==
    [][\A id \in CancelIds : \A e \in Emails :
          ( /\ Cancel(id, e)
            /\ id \in ResIds
            /\ reservations[id].guestEmail = e
            /\ reservations[id].status = "pending" )
          => /\ ret'.error = "none"
             /\ ret'.id = id
             /\ Len(reservations') = Len(reservations)
             /\ reservations'[id].status = "cancelled"
             /\ reservations'[id].updatedAt = now
             /\ \A f \in DOMAIN reservations[id] \ {"status", "updatedAt"} :
                    reservations'[id][f] = reservations[id][f]
             /\ \A j \in ResIds \ {id} : reservations'[j] = reservations[j]
             /\ UNCHANGED <<rooms, blockedDates>>]_vars

C10_Witness ==
    /\ ret.error = "none"
    /\ ret.email \in Emails
    /\ reservations[ret.id].status = "cancelled"
    /\ reservations[ret.id].guestEmail = ret.email
    /\ reservations[ret.id].createdAt < reservations[ret.id].updatedAt
    /\ reservations[ret.id].updatedAt = now
    /\ \E j \in ResIds \ {ret.id} : reservations[j].status = "pending"

(***************************************************************************)
(* Creation and administrative status changes, under Spec.                 *)
(***************************************************************************)
\* C11: every step that inserts a reservation inserts it with status pending
\* and with createdAt and updatedAt both equal to the current time.
C11_CreatedPending ==
    [][Len(reservations') = Len(reservations) + 1
          => LET new == reservations'[Len(reservations')]
             IN  /\ new.status = "pending"
                 /\ new.createdAt = now
                 /\ new.updatedAt = now
                 /\ SubSeq(reservations', 1, Len(reservations)) = reservations]_vars

\* a reservation just inserted, after the clock has advanced, beside an older
\* one that is no longer pending
C11_Witness ==
    /\ Len(reservations) = 2
    /\ ret = Returned(2, NoEmail, "none")
    /\ reservations[2].status = "pending"
    /\ reservations[2].createdAt = now
    /\ reservations[2].updatedAt = now
    /\ now > 0
    /\ reservations[1].status = "confirmed"

\* C14: updateStatus(id, s) on a reservation whose status already is s leaves
\* the status s and rewrites updatedAt to the current time.
C14_UpdateStatusIdempotent ==
    [][\A id \in 1..MaxRes : \A s \in Statuses :
          ( /\ UpdateStatus(id, s)
            /\ id \in ResIds
            /\ reservations[id].status = s )
          => /\ reservations'[id].status = s
             /\ reservations'[id].updatedAt = now
             /\ \A f \in DOMAIN reservations[id] \ {"updatedAt"} :
                    reservations'[id][f] = reservations[id][f]]_vars

\* a confirmed reservation whose updatedAt is older than the clock, on which
\* updateStatus(id, confirmed) can be called again
C14_Witness ==
    \E id \in ResIds :
        /\ reservations[id].status = "confirmed"
        /\ reservations[id].updatedAt < now
        /\ ENABLED ( /\ UpdateStatus(id, "confirmed")
                     /\ reservations'[id].status = "confirmed"
                     /\ reservations'[id].updatedAt = now )

\* C15: no transition table: in every state, for every stored reservation and
\* every target status, updateStatus sets the reservation to that status.
C15_AnyToAny ==
    \A id \in ResIds : \A s \in Statuses :
        ENABLED ( /\ UpdateStatus(id, s)
                  /\ reservations'[id].status = s
                  /\ ret'.error = "none" )

\* a completed reservation that can go back to confirmed, and a cancelled one
\* that can go back to pending and then takes its room out of the results again
C15_Witness ==
    /\ \E id \in ResIds :
           /\ reservations[id].status = "completed"
           /\ ENABLED (UpdateStatus(id, "confirmed")
                           /\ reservations'[id].status = "confirmed")
    /\ \E id \in ResIds :
           /\ reservations[id].status = "cancelled"
           /\ reservations[id].roomId
                  \in Returns(<<reservations[id].checkIn, reservations[id].checkOut>>)
           /\ ENABLED ( /\ UpdateStatus(id, "pending")
                        /\ reservations'[id].status = "pending"
                        /\ reservations[id].roomId
                               \notin Returns(<<reservations[id].checkIn,
                                                reservations[id].checkOut>>)' )

(***************************************************************************)
(* SpecAdmin: the room catalogue and the ledger under the administrator's  *)
(* room updates and status changes; a reservation is created for one night *)
(* at the room's current price.                                            *)
(***************************************************************************)
\* the price the administrator raises a room to
RaisedPrice == SeedPrice + 10000

AdminPatches ==
    [order : {Some(o) : o \in Orders} \cup {Undefined},
     price : {Some(RaisedPrice), Undefined},
     isAvailable : {Some(b) : b \in BOOLEAN} \cup {Undefined}]

NextAdmin ==
    \/ \E o \in Orders : RoomsCreate(o, SeedPrice) /\ UNCHANGED <<browser, widgets>>
    \/ \E r \in 1..MaxRooms, u \in AdminPatches :
           RoomsUpdate(r, u) /\ UNCHANGED <<browser, widgets>>
    \/ \E r \in 1..Len(rooms) :
           Create(r, AvailEmail, StayIn, StayOut, rooms[r].price)
               /\ UNCHANGED <<browser, widgets>>
    \/ \E id \in 1..MaxRes, s \in Statuses :
           UpdateStatus(id, s) /\ UNCHANGED <<browser, widgets>>
    \/ \E id \in 1..MaxRes : Cancel(id, AvailEmail) /\ UNCHANGED <<browser, widgets>>

SpecAdmin == Init /\ [][NextAdmin]_vars

RECURSIVE SumOver(_)
SumOver(S) ==
    IF S = {} THEN 0
    ELSE LET i == CHOOSE j \in S : TRUE
         IN  reservations[i].totalPrice + SumOver(S \ {i})

\* C13: totalRevenue of getStats is the sum of totalPrice over exactly the
\* reservations that are confirmed or completed now.
C13_RevenueIsConfirmedAndCompleted ==
    /\ getStats.totalRevenue
           = SumOver({ i \in ResIds :
                         reservations[i].status \in {"confirmed", "completed"} })
    /\ getStats.total = Len(reservations)
    /\ \A s \in Statuses :
           getStats[s] = Cardinality({ i \in ResIds : reservations[i].status = s })

\* a confirmed and a completed reservation with different prices are summed
C13_Witness ==
    /\ Len(reservations) = 2
    /\ reservations[1].status = "completed"
    /\ reservations[2].status = "confirmed"
    /\ reservations[1].totalPrice # reservations[2].totalPrice
    /\ getStats.totalRevenue = reservations[1].totalPrice + reservations[2].totalPrice

\* C16: listAll returns at least as many rooms as list, as many exactly when no
\* stored room has isAvailable false, and both are in non-decreasing order.
C16_ListAllCoversList ==
    /\ Len(RoomsListAll) >= Len(RoomsList)
    /\ (Len(RoomsListAll) = Len(RoomsList))
           <=> ~(\E r \in RoomIds : rooms[r].isAvailable = FALSE)
    /\ IsSortedByOrder(RoomsListAll)
    /\ IsSortedByOrder(RoomsList)
    /\ { RoomsListAll[k] : k \in 1..Len(RoomsListAll) } = RoomIds
    /\ { RoomsList[k] : k \in 1..Len(RoomsList) } = Bookable

C16_Witness ==
    /\ Len(rooms) = 2
    /\ rooms[2].order < rooms[1].order
    /\ rooms[2].isAvailable = FALSE
    /\ RoomsListAll = <<2, 1>>
    /\ RoomsList = <<1>>

\* C17: no step changes the totalPrice of a stored reservation.
C17_TotalPriceFixed ==
    [][\A i \in ResIds :
          /\ i \in 1..Len(reservations')
          /\ reservations'[i].totalPrice = reservations[i].totalPrice]_vars

\* the room's price was changed after the booking and the booking's status
\* after that; the total is still the price at creation
C17_Witness ==
    \E i \in ResIds :
        /\ reservations[i].totalPrice = SeedPrice
        /\ rooms[reservations[i].roomId].price = RaisedPrice
        /\ reservations[i].status = "completed"

\* C18: rooms.update writes exactly the supplied fields of the room it names,
\* and changes no other room and no reservation.
C18_SparsePatch ==
    [][\A r \in 1..MaxRooms : \A u \in AdminPatches :
          RoomsUpdate(r, u)
          => /\ r \in RoomIds
                    => \A f \in DOMAIN rooms[r] :
                           rooms'[r][f] = IF u[f] = Undefined THEN rooms[r][f]
                                          ELSE u[f][1]
             /\ Len(rooms') = Len(rooms)
             /\ \A other \in RoomIds \ {r} : rooms'[other] = rooms[other]
             /\ UNCHANGED <<reservations, blockedDates>>]_vars

\* the last call patched room 1, which differs from a fresh room in order and
\* price only, while room 2 was set not bookable before
C18_Witness ==
    /\ Len(rooms) = 2
    /\ ret = Returned(1, NoEmail, "none")
    /\ rooms[1] = [order |-> 2, price |-> RaisedPrice, isAvailable |-> TRUE]
    /\ rooms[2].isAvailable = FALSE
    /\ Len(reservations) > 0

(***************************************************************************)
(* SpecRace: two guests, each asking for the rooms free for a stay and     *)
(* booking a room, in any interleaving, with the administrator's status    *)
(* changes.  The two guests' stays overlap.                                *)
(***************************************************************************)
GuestStay(guest) ==
    IF guest = "kim@example.com" THEN <<DateWindow[1], DateWindow[3]>>
    ELSE <<DateWindow[2], DateWindow[3]>>

\* the query rooms.getAvailableRooms sent by a browser
QueryAvailableRooms(c, checkIn, checkOut) ==
    /\ UNCHANGED <<rooms, reservations, blockedDates, now, ret, auth, widgets>>
    /\ caller' = c
    /\ seen' = [seen EXCEPT ![c].avail =
                   Some(<<checkIn, checkOut, getAvailableRooms(checkIn, checkOut)>>)]

NextRace ==
    \/ RoomsCreate(1, SeedPrice) /\ UNCHANGED <<browser, widgets>>
    \/ \E c \in Emails :
           QueryAvailableRooms(c, GuestStay(c)[1], GuestStay(c)[2])
    \/ \E c \in Emails, r \in 1..MaxRooms :
           /\ Create(r, c, GuestStay(c)[1], GuestStay(c)[2], SeedPrice)
           /\ caller' = c
           /\ UNCHANGED <<auth, seen, widgets>>
    \/ \E id \in 1..MaxRes, s \in Statuses :
           UpdateStatus(id, s) /\ UNCHANGED <<browser, widgets>>
    \/ \E id \in 1..MaxRes, c \in Emails :
           Cancel(id, c) /\ caller' = c /\ UNCHANGED <<auth, seen, widgets>>

SpecRace == Init /\ [][NextRace]_vars

\* the room ids in the last availability result the guest received
SeenAvailable(c) ==
    IF seen[c].avail = Undefined THEN {}
    ELSE LET ids == seen[c].avail[1][3] IN { ids[k] : k \in 1..Len(ids) }

\* C12: create never rejects on a conflict: in every state with space in the
\* table, each guest can book each stored room for the guest's stay, whatever
\* reservations the room has, and the booking is stored as pending.
C12_CreateNeverRejects ==
    \A c \in Emails : \A r \in RoomIds :
        Len(reservations) < MaxRes
        => ENABLED ( /\ Create(r, c, GuestStay(c)[1], GuestStay(c)[2], SeedPrice)
                     /\ ret'.error = "none"
                     /\ Len(reservations') = Len(reservations) + 1
                     /\ reservations'[Len(reservations')].status = "pending"
                     /\ reservations'[Len(reservations')].roomId = r )

\* the double booking: both guests were told the room is free for their
\* stays, both booked it, and both overlapping reservations are pending
C12_Witness ==
    /\ Len(reservations) = 2
    /\ reservations[1].roomId = reservations[2].roomId
    /\ reservations[1].guestEmail # reservations[2].guestEmail
    /\ reservations[1].status = "pending"
    /\ reservations[2].status = "pending"
    /\ isOverlapping(reservations[1].checkIn, reservations[1].checkOut,
                     reservations[2].checkIn, reservations[2].checkOut)
    /\ \A i \in 1..2 :
           /\ seen[reservations[i].guestEmail].avail # Undefined
           /\ seen[reservations[i].guestEmail].avail[1][1] = reservations[i].checkIn
           /\ seen[reservations[i].guestEmail].avail[1][2] = reservations[i].checkOut
           /\ reservations[i].roomId \in SeenAvailable(reservations[i].guestEmail)
    /\ ret = Returned(2, NoEmail, "none")

(***************************************************************************)
(* SpecRead: the two queries, asked by two browsers between the calls that *)
(* change what they read: rooms are created and switched off and on, a     *)
(* date is blocked, reservations are created and moved between statuses.   *)
(***************************************************************************)
\* the query reservations.getStats sent by a browser
QueryStats(c) ==
    /\ UNCHANGED <<rooms, reservations, blockedDates, now, ret, auth, widgets>>
    /\ caller' = c
    /\ seen' = [seen EXCEPT ![c].stats = Some(getStats)]

ReadStays == { <<DateWindow[1], DateWindow[2]>>, <<DateWindow[2], DateWindow[3]>> }

ReadEmail == "lee@example.com"

ReadPatches ==
    [order : {Undefined}, price : {Undefined},
     isAvailable : {Some(b) : b \in BOOLEAN}]

NextRead ==
    \/ RoomsCreate(1, SeedPrice) /\ UNCHANGED <<browser, widgets>>
    \/ \E u \in ReadPatches : RoomsUpdate(1, u) /\ UNCHANGED <<browser, widgets>>
    \/ BlockDate(2, DateWindow[2]) /\ UNCHANGED <<browser, widgets>>
    \/ Create(1, AvailEmail, StayIn, StayOut, SeedPrice) /\ UNCHANGED <<browser, widgets>>
    \/ \E id \in 1..MaxRes, s \in Statuses :
           UpdateStatus(id, s) /\ UNCHANGED <<browser, widgets>>
    \/ \E q \in ReadStays : QueryAvailableRooms(AvailEmail, q[1], q[2])
    \/ QueryAvailableRooms(ReadEmail, StayIn, StayOut)
    \/ QueryStats(ReadEmail)

SpecRead == Init /\ [][NextRead]_vars

\* what the tables hold for the stay q: the bookable rooms without those with
\* an active reservation overlapping q or a blocked date in q
FreeRooms(q) == Bookable \ (OverlappedRooms(q) \cup BlockedRooms(q))

\* ids lists the rooms of S, each once, by display order, and rooms of one
\* display order in the order they were created in: S has one such list
ListsByOrder(ids, S) ==
    /\ { ids[k] : k \in 1..Len(ids) } = S
    /\ Len(ids) = Cardinality(S)
    /\ \A k \in 1..(Len(ids) - 1) :
           \/ rooms[ids[k]].order < rooms[ids[k + 1]].order
           \/ rooms[ids[k]].order = rooms[ids[k + 1]].order /\ ids[k] < ids[k + 1]

\* what the ledger holds: the number of reservations, of each status, and the
\* prices of the confirmed and the completed ones summed
LedgerStats ==
    [total |-> Cardinality(ResIds),
     pending |-> Cardinality({ i \in ResIds : reservations[i].status = "pending" }),
     confirmed |-> Cardinality({ i \in ResIds : reservations[i].status = "confirmed" }),
     cancelled |-> Cardinality({ i \in ResIds : reservations[i].status = "cancelled" }),
     completed |-> Cardinality({ i \in ResIds : reservations[i].status = "completed" }),
     totalRevenue |-> SumOver({ i \in ResIds :
                                  reservations[i].status \in {"confirmed", "completed"} })]

\* a call of getAvailableRooms by c for the stay q leaves the three tables as
\* they are and returns the one list the tables and q determine
ReadsAvailableRooms(c, q) ==
    QueryAvailableRooms(c, q[1], q[2])
    => /\ UNCHANGED <<rooms, reservations, blockedDates>>
       /\ ListsByOrder(seen'[c].avail[1][3], FreeRooms(q))

\* a call of getStats by c leaves the three tables as they are and returns
\* the one record the ledger determines
ReadsStats(c) ==
    QueryStats(c)
    => /\ UNCHANGED <<rooms, reservations, blockedDates>>
       /\ seen'[c].stats = Some(LedgerStats)

\* C19: a call of getAvailableRooms or getStats, in whatever state it is made,
\* leaves rooms, reservations and blockedDates unchanged, and what it returns
\* is determined by the three tables and its arguments alone, not by the
\* browser that calls, by what a browser received before or by the calls made
\* before: two calls with the same arguments in the same state return the
\* same result.
C19_PureReads ==
    /\ [][\A c \in Emails :
              /\ \A q \in ReadStays : ReadsAvailableRooms(c, q)
              /\ ReadsStats(c)]_vars
    /\ [][seen' # seen => UNCHANGED <<rooms, reservations, blockedDates>>]_vars

\* the two browsers asked for the rooms of the same stay, the first before
\* room 1 was booked and the booking confirmed, the second after, and the
\* second for the statistics: the first holds both rooms, the second what the
\* tables give now
C19_Witness ==
    /\ seen[AvailEmail].avail = Some(<<StayIn, StayOut, <<1, 2>>>>)
    /\ seen[ReadEmail].avail = Some(<<StayIn, StayOut, <<2>>>>)
    /\ FreeRooms(<<StayIn, StayOut>>) = {2}
    /\ seen[ReadEmail].stats = Some(LedgerStats)
    /\ LedgerStats.totalRevenue = SeedPrice
    /\ LedgerStats.confirmed = 1
    /\ caller = ReadEmail

(***************************************************************************)
(* SpecGate: the admin login of lib/price.ts, the admin pages, which       *)
(* render their controls for an authenticated browser only, and the two    *)
(* mutations the pages call.  The mutations are public functions of the    *)
(* deployment: any browser that holds the deployment URL can call them.    *)
(***************************************************************************)
ADMIN_PASSWORD == "vhouse2026"

Passwords == {ADMIN_PASSWORD, "guesthouse"}

(***************************************************************************)
(* A browser is one tab.  client.page[c] is the page the tab of c shows:   *)
(* at is "reservations" for /admin/reservations, "rooms" for /admin/rooms, *)
(* "booking" for the booking page and "other" for every other page, the    *)
(* login page /admin and the dashboard among them; statusFilter and        *)
(* isSeeding are the useState values of that name, and list is what the    *)
(* page's useQuery returned at the last render, undefined until the        *)
(* subscription delivers.  A page that mounts starts from PageInit.        *)
(* The pages call a mutation with await: the handler sends the call, the   *)
(* deployment runs it later, and the handler goes on when the answer is    *)
(* back.  client.sent holds the calls sent; done marks a call that ran and *)
(* whose answer is on its way, live a call whose component is still        *)
(* mounted.                                                                *)
(***************************************************************************)
MaxSent == 2

AdminPages == {"reservations", "rooms"}

\* the state a page mounts with
PageInit(at) ==
    [at |-> at, statusFilter |-> "all", list |-> Undefined, isSeeding |-> FALSE]

\* the calls sent once the page of c is gone: their handlers go on in a
\* component that is not mounted
Unmounted(sent, c) ==
    [k \in 1..Len(sent) |->
        IF sent[k].c = c THEN [sent[k] EXCEPT !.live = FALSE] ELSE sent[k]]

\* the state a BookingForm mounts with
FormInit ==
    [checkIn |-> Undefined, checkOut |-> Undefined, selectedRoom |-> Undefined,
     isSubmitting |-> FALSE, isSuccess |-> FALSE]

\* the browser whose booking form the variable form is
FormBrowser == AvailEmail

\* adminLogin(password), called by the login page
AdminLogin(c, password) ==
    /\ auth' = IF password = ADMIN_PASSWORD THEN [auth EXCEPT ![c] = TRUE] ELSE auth
    /\ UNCHANGED <<rooms, reservations, blockedDates, now, ret, seen, caller, widgets>>

\* logout of useAdminAuth, called from the side bar of an admin page:
\* adminLogout(), and router.push("/admin") takes the tab to the login page
AdminLogout(c) ==
    /\ client.page[c].at # "booking"
    /\ auth' = [auth EXCEPT ![c] = FALSE]
    /\ client' = [client EXCEPT !.page[c] = PageInit("other"),
                                !.sent = Unmounted(@, c)]
    /\ UNCHANGED <<rooms, reservations, blockedDates, now, ret, seen, caller,
                   form, rate, pager, deb>>

\* isAdminAuthenticated()
isAdminAuthenticated(c) == auth[c] = TRUE

\* the tab of c goes to a page, which mounts, and the page it showed
\* unmounts.  An admin page reads isAdminAuthenticated() in the effect of its
\* first render, and requireAuth sends a browser that is not authenticated
\* on to the login page.
OpenPage(c, at) ==
    /\ client' = [client EXCEPT
                     !.page[c] = IF at \in AdminPages /\ ~isAdminAuthenticated(c)
                                 THEN PageInit("other") ELSE PageInit(at),
                     !.sent = Unmounted(@, c)]
    /\ form' = IF c = FormBrowser THEN FormInit ELSE form
    /\ UNCHANGED <<rooms, reservations, blockedDates, now, ret, browser, rate,
                   pager, deb>>

\* the call of reservations.updateStatus by browser c reaching the deployment
CallUpdateStatus(c, reservationId, status) ==
    /\ UpdateStatus(reservationId, status)
    /\ caller' = c
    /\ UNCHANGED <<auth, seen>>

\* the call of rooms.update by browser c reaching the deployment
CallRoomsUpdate(c, roomId, updates) ==
    /\ RoomsUpdate(roomId, updates)
    /\ caller' = c
    /\ UNCHANGED <<auth, seen>>

\* the call of reservations.create by browser c reaching the deployment
CallCreate(c, roomId, guestEmail, stay, totalPrice) ==
    /\ Create(roomId, guestEmail, stay[1], stay[2], totalPrice)
    /\ caller' = c
    /\ UNCHANGED <<auth, seen>>

\* the call of rooms.seedRooms by browser c reaching the deployment
CallSeedRooms(c) ==
    /\ SeedRooms
    /\ caller' = c
    /\ UNCHANGED <<auth, seen>>

NoUpdates == [order |-> Undefined, price |-> Undefined, isAvailable |-> Undefined]

Request(c, op, id, status, updates, guestEmail, stay, price) ==
    [c |-> c, op |-> op, id |-> id, status |-> status, updates |-> updates,
     guestEmail |-> guestEmail, stay |-> stay, price |-> price,
     done |-> FALSE, live |-> TRUE]

\* the handlers that go on after the answer: onSubmit and handleSeedRooms
AwaitsAnswer(op) == op \in {"create", "seedRooms"}

\* the deployment runs the k-th call sent
RunSent(k) ==
    /\ k \in 1..Len(client.sent)
    /\ ~client.sent[k].done
    /\ LET q == client.sent[k]
       IN  /\ CASE q.op = "updateStatus" -> CallUpdateStatus(q.c, q.id, q.status)
                [] q.op = "update" -> CallRoomsUpdate(q.c, q.id, q.updates)
                [] q.op = "create" ->
                       CallCreate(q.c, q.id, q.guestEmail, q.stay, q.price)
                [] q.op = "seedRooms" -> CallSeedRooms(q.c)
           /\ client' = [client EXCEPT !.sent =
                            IF AwaitsAnswer(q.op) THEN [@ EXCEPT ![k].done = TRUE]
                            ELSE RemoveAt(@, k)]
    /\ UNCHANGED <<form, rate, pager, deb>>

\* the answer of the k-th call reaches its handler: onSubmit shows the
\* success screen, handleSeedRooms ends isSeeding; in a component that is
\* not mounted any more the two set no state
Answered(k) ==
    /\ k \in 1..Len(client.sent)
    /\ client.sent[k].done
    /\ LET q == client.sent[k]
       IN  /\ client' = [client EXCEPT
                            !.sent = RemoveAt(@, k),
                            !.page[q.c].isSeeding =
                                IF q.op = "seedRooms" /\ q.live THEN FALSE ELSE @]
           /\ form' = IF q.op = "create" /\ q.live
                      THEN [form EXCEPT !.isSuccess = TRUE, !.isSubmitting = FALSE]
                      ELSE form
    /\ UNCHANGED <<rooms, reservations, blockedDates, now, ret, browser, rate,
                   pager, deb>>

\* reservations.sort((a, b) => b.createdAt - a.createdAt): a stable sort, the
\* latest first
RECURSIVE InsertByCreatedAt(_, _)
InsertByCreatedAt(sorted, id) ==
    IF sorted = <<>> THEN <<id>>
    ELSE IF reservations[sorted[Len(sorted)]].createdAt >= reservations[id].createdAt
         THEN Append(sorted, id)
         ELSE Append(InsertByCreatedAt(SubSeq(sorted, 1, Len(sorted) - 1), id),
                     sorted[Len(sorted)])

RECURSIVE SortByCreatedAt(_)
SortByCreatedAt(ids) ==
    IF ids = <<>> THEN <<>>
    ELSE InsertByCreatedAt(SortByCreatedAt(SubSeq(ids, 1, Len(ids) - 1)),
                           ids[Len(ids)])

\* reservations.list: the ids of the reservations returned, in the order
\* returned, all of them for the filter "all", which the page sends no
\* status for
ReservationsList(statusFilter) ==
    SortByCreatedAt(Ascending(
        { i \in 1..Len(reservations) :
            statusFilter = "all" \/ reservations[i].status = statusFilter }))

\* the select of the admin reservations page: setStatusFilter(value); with
\* another argument the useQuery is undefined until its result is delivered
SetStatusFilter(c, value) ==
    /\ client.page[c].at = "reservations"
    /\ client' = [client EXCEPT
                     !.page[c].statusFilter = value,
                     !.page[c].list =
                         IF value = client.page[c].statusFilter THEN @
                         ELSE Undefined]
    /\ UNCHANGED <<rooms, reservations, blockedDates, now, ret, browser, form,
                   rate, pager, deb>>

\* useQuery(api.reservations.list, ...) of the admin reservations page of c
\* delivers the reservations of the status the page filters on
DeliverReservations(c) ==
    /\ client.page[c].at = "reservations"
    /\ LET ids == ReservationsList(client.page[c].statusFilter)
       IN  client' = [client EXCEPT !.page[c].list =
                         Some([k \in 1..Len(ids) |->
                                  [id |-> ids[k],
                                   status |-> reservations[ids[k]].status]])]
    /\ UNCHANGED <<rooms, reservations, blockedDates, now, ret, browser, form,
                   rate, pager, deb>>

\* useQuery(api.rooms.listAll) of the admin rooms page of c delivers
DeliverRoomsAll(c) ==
    /\ client.page[c].at = "rooms"
    /\ client' = [client EXCEPT !.page[c].list =
                     Some([k \in 1..Len(RoomsListAll) |->
                              [id |-> RoomsListAll[k],
                               price |-> rooms[RoomsListAll[k]].price,
                               isAvailable |-> rooms[RoomsListAll[k]].isAvailable]])]
    /\ UNCHANGED <<rooms, reservations, blockedDates, now, ret, browser, form,
                   rate, pager, deb>>

\* the rows of the list the page of c rendered last with the document id
Rows(c, id) ==
    IF client.page[c].list = Undefined THEN {}
    ELSE { row \in { client.page[c].list[1][k] :
                       k \in 1..Len(client.page[c].list[1]) } : row.id = id }

\* the statuses the dialog shows a button for
StatusButtons(status) ==
    { s \in {"confirmed"} : status # "confirmed" }
        \cup { s \in {"cancelled"} : status # "cancelled" }
        \cup { s \in {"completed"} : status = "confirmed" }

\* handleStatusChange of the admin reservations page, which renders for an
\* authenticated browser only
HandleStatusChange(c, reservationId, newStatus) ==
    /\ client.page[c].at = "reservations"
    /\ Len(client.sent) < MaxSent
    /\ client' = [client EXCEPT !.sent =
           Append(@, Request(c, "updateStatus", reservationId, newStatus,
                             NoUpdates, NoEmail, <<>>, 0))]
    /\ UNCHANGED <<rooms, reservations, blockedDates, now, ret, browser, form,
                   rate, pager, deb>>

\* a click on a status button of the dialog of a reservation of the list the
\* page rendered last
ClickStatusButton(c, reservationId, newStatus) ==
    /\ \E row \in Rows(c, reservationId) : newStatus \in StatusButtons(row.status)
    /\ HandleStatusChange(c, reservationId, newStatus)

\* handleToggleAvailable of the admin rooms page, called by the switch of a
\* room of the list rendered last with the opposite of what it shows
HandleToggleAvailable(c, roomId, isAvailable) ==
    /\ client.page[c].at = "rooms"
    /\ \E row \in Rows(c, roomId) : isAvailable = ~row.isAvailable
    /\ Len(client.sent) < MaxSent
    /\ client' = [client EXCEPT !.sent =
           Append(@, Request(c, "update", roomId, "",
                             [NoUpdates EXCEPT !.isAvailable = Some(isAvailable)],
                             NoEmail, <<>>, 0))]
    /\ UNCHANGED <<rooms, reservations, blockedDates, now, ret, browser, form,
                   rate, pager, deb>>

\* handleUpdateRoom of the admin rooms page for the room picked in the list
\* rendered last, with the price typed
HandleUpdateRoom(c, roomId, editPrice) ==
    /\ client.page[c].at = "rooms"
    /\ Rows(c, roomId) # {}
    /\ Len(client.sent) < MaxSent
    /\ client' = [client EXCEPT !.sent =
           Append(@, Request(c, "update", roomId, "",
                             [NoUpdates EXCEPT !.price = Some(editPrice)],
                             NoEmail, <<>>, 0))]
    /\ UNCHANGED <<rooms, reservations, blockedDates, now, ret, browser, form,
                   rate, pager, deb>>

\* handleSeedRooms of the admin rooms page: the button shows while the list
\* rendered last is empty and is disabled while isSeeding
HandleSeedRooms(c) ==
    /\ client.page[c].at = "rooms"
    /\ client.page[c].list = Some(<<>>)
    /\ ~client.page[c].isSeeding
    /\ Len(client.sent) < MaxSent
    /\ client' = [client EXCEPT
           !.page[c].isSeeding = TRUE,
           !.sent = Append(@, Request(c, "seedRooms", 0, "", NoUpdates, NoEmail,
                                      <<>>, 0))]
    /\ UNCHANGED <<rooms, reservations, blockedDates, now, ret, browser, form,
                   rate, pager, deb>>

GatePatches ==
    [order : {Undefined}, price : {Undefined},
     isAvailable : {Some(b) : b \in BOOLEAN}]

\* the browser the administrator uses
AdminBrowser == "lee@example.com"

\* one room and one reservation, the rooms page in the administrator's
\* browser, and the two mutations called by any browser
NextGate ==
    \/ rooms = <<>> /\ RoomsCreate(1, SeedPrice) /\ UNCHANGED <<browser, widgets>>
    \/ /\ reservations = <<>>
       /\ CallCreate(AvailEmail, 1, AvailEmail, <<StayIn, StayOut>>, SeedPrice)
       /\ UNCHANGED widgets
    \/ \E c \in Emails, password \in Passwords : AdminLogin(c, password)
    \/ AdminLogout(AdminBrowser)
    \/ OpenPage(AdminBrowser, "rooms")
    \/ DeliverRoomsAll(AdminBrowser)
    \/ \E r \in 1..MaxRooms, b \in BOOLEAN :
           HandleToggleAvailable(AdminBrowser, r, b)
    \/ \E r \in 1..MaxRooms : HandleUpdateRoom(AdminBrowser, r, RaisedPrice)
    \/ \E k \in 1..MaxSent : RunSent(k)
    \/ \E c \in Emails, id \in 1..MaxRes, s \in Statuses :
           CallUpdateStatus(c, id, s) /\ UNCHANGED widgets
    \/ \E c \in Emails, r \in 1..MaxRooms, u \in GatePatches :
           CallRoomsUpdate(c, r, u) /\ UNCHANGED widgets

SpecGate == Init /\ [][NextGate]_vars

\* C20: a step of updateStatus that changes a reservation's status, and a step
\* of rooms.update that changes a room, is made by a browser that has logged
\* in with the admin password and has not logged out since.
C20_AdminGated ==
    [][( \/ \E id \in ResIds : reservations'[id].status # reservations[id].status
         \/ \E r \in 1..Len(rooms) : rooms'[r] # rooms[r] )
       => isAdminAuthenticated(caller')]_vars

\* the confirmed reservations of the same room that overlap reservation id
ConfirmedOverlapping(id) ==
    { i \in ResIds \ {id} :
        /\ reservations[i].roomId = reservations[id].roomId
        /\ reservations[i].status = "confirmed"
        /\ isOverlapping(reservations[i].checkIn, reservations[i].checkOut,
                         reservations[id].checkIn, reservations[id].checkOut) }

\* C24: updateStatus(id, confirmed) succeeds for every stored reservation, also
\* when a confirmed reservation of the same room overlaps it, and no call of
\* create, updateStatus or cancel returns an error other than the three of
\* cancel and the one of a patch of an id that is not stored.
C24_ConfirmIgnoresOverlap ==
    /\ \A id \in ResIds :
           ENABLED ( /\ UpdateStatus(id, "confirmed")
                     /\ ret'.error = "none"
                     /\ reservations'[id].status = "confirmed"
                     /\ ConfirmedOverlapping(id)' = ConfirmedOverlapping(id) )
    /\ ret.error \in {"none", "not_found", "unauthorized", "invalid_state",
                     "nonexistent_document"}

\* two confirmed reservations of one room with overlapping stays, the second
\* confirmed by the last call
C24_Witness ==
    /\ Len(reservations) = 2
    /\ reservations[1].status = "confirmed"
    /\ reservations[2].status = "confirmed"
    /\ ConfirmedOverlapping(2) = {1}
    /\ reservations[1].checkIn # reservations[2].checkIn
    /\ ret = Returned(2, NoEmail, "none")

\* the error the order not-found, email, status gives
FirstFailing(id, e) ==
    IF id \notin ResIds THEN "not_found"
    ELSE IF reservations[id].guestEmail # e THEN "unauthorized"
    ELSE IF reservations[id].status # "pending" THEN "invalid_state"
    ELSE "none"

\* C25: cancel reports the first failing check in the order not-found, email,
\* status: a call with a wrong email gets unauthorized whatever the status of
\* the reservation, so the answer does not tell the status.
C25_CancelCheckOrder ==
    \A id \in CancelIds : \A e \in Emails :
        /\ ENABLED (Cancel(id, e) /\ ret'.error = FirstFailing(id, e))
        /\ ~ ENABLED (Cancel(id, e) /\ ret'.error # FirstFailing(id, e))
        /\ (id \in ResIds /\ reservations[id].guestEmail # e)
               => ~ ENABLED (Cancel(id, e) /\ ret'.error # "unauthorized")

\* the last call was a cancel with a wrong email on a reservation that is not
\* pending, and it was answered unauthorized
C25_Witness ==
    /\ ret.id \in ResIds
    /\ ret.email \in Emails
    /\ reservations[ret.id].guestEmail # ret.email
    /\ reservations[ret.id].status \in {"confirmed", "cancelled", "completed"}
    /\ ret.error = "unauthorized"

(***************************************************************************)
(* SpecPage: the admin reservations page with the guests' calls.  The      *)
(* dialog of a reservation shows a button for a status according to the    *)
(* status the list delivered last gives the reservation; a click calls     *)
(* handleStatusChange.                                                     *)
(***************************************************************************)
\* the values of the select
PageFilters == {"all"} \cup Statuses

\* one guest with one reservation, the page of the administrator, and
\* updateStatus called by any browser
NextPage ==
    \/ rooms = <<>> /\ RoomsCreate(1, SeedPrice) /\ UNCHANGED <<browser, widgets>>
    \/ /\ reservations = <<>>
       /\ CallCreate(AvailEmail, 1, AvailEmail, <<StayIn, StayOut>>, SeedPrice)
       /\ UNCHANGED widgets
    \/ \E id \in 1..MaxRes :
           /\ Cancel(id, AvailEmail)
           /\ caller' = AvailEmail
           /\ UNCHANGED <<auth, seen, widgets>>
    \/ \E c \in Emails, password \in Passwords : AdminLogin(c, password)
    \/ AdminLogout(AdminBrowser)
    \/ OpenPage(AdminBrowser, "reservations")
    \/ \E value \in PageFilters : SetStatusFilter(AdminBrowser, value)
    \/ DeliverReservations(AdminBrowser)
    \/ \E id \in 1..MaxRes, s \in Statuses :
           ClickStatusButton(AdminBrowser, id, s)
    \/ \E k \in 1..MaxSent : RunSent(k)
    \/ \E c \in Emails, id \in 1..MaxRes, s \in Statuses :
           CallUpdateStatus(c, id, s) /\ UNCHANGED widgets

SpecPage == Init /\ [][NextPage]_vars

\* C22: every status change the deployment makes for a call the admin
\* reservations page sent is one of pending -> confirmed, pending|confirmed
\* -> cancelled, confirmed -> completed; a cancelled or completed reservation
\* is never moved.
C22_PageFollowsLifecycle ==
    [][\A k \in 1..MaxSent :
          ( /\ k \in 1..Len(client.sent)
            /\ RunSent(k)
            /\ client.sent[k].op = "updateStatus"
            /\ client.sent[k].id \in ResIds )
          => /\ IntendedTransition(reservations[client.sent[k].id].status,
                                   client.sent[k].status)
             /\ reservations[client.sent[k].id].status
                    \notin {"cancelled", "completed"}]_vars

(***************************************************************************)
(* SpecForm: the booking page.  The page renders the form with the result  *)
(* of rooms.list delivered last, while that is not empty; the form keeps   *)
(* the two ends of the range picked in the calendar and the room picked,   *)
(* and submits them to reservations.create.  A Date of the form is the     *)
(* local midnight of a calendar day, modelled by that day.                 *)
(***************************************************************************)
\* the rooms the booking page of the form's browser rendered last
FormRooms == client.page[FormBrowser].list

\* the page renders BookingForm
FormMounted ==
    /\ client.page[FormBrowser].at = "booking"
    /\ FormRooms # Undefined
    /\ FormRooms[1] # <<>>

\* useQuery(api.rooms.list) of the booking page of c delivers: with an empty
\* list the form unmounts and loses its state
DeliverRooms(c) ==
    LET list == [k \in 1..Len(RoomsList) |->
                    [id |-> RoomsList[k], price |-> rooms[RoomsList[k]].price]]
    IN  /\ client.page[c].at = "booking"
        /\ client' = [client EXCEPT
                        !.page[c].list = Some(list),
                        !.sent = IF list = <<>> THEN Unmounted(@, c) ELSE @]
        /\ form' = IF list = <<>> /\ c = FormBrowser THEN FormInit ELSE form
        /\ UNCHANGED <<rooms, reservations, blockedDates, now, ret, browser,
                       rate, pager, deb>>

\* the ranges the calendar in range mode hands to onSelect: a first day alone,
\* or a first and a last day, the last not before the first
CalendarRanges ==
    { range \in [from : {Some(d) : d \in Dates},
                 to : {Some(d) : d \in Dates} \cup {Undefined}] :
        range.to = Undefined \/ ~StrLess(range.to[1], range.from[1]) }

\* handleSelect of the date picker with the form's onDateChange
HandleSelect(range) ==
    /\ FormMounted
    /\ ~form.isSuccess
    /\ form' = [form EXCEPT !.checkIn = range.from, !.checkOut = range.to]
    /\ UNCHANGED <<rooms, reservations, blockedDates, now, ret, browser,
                   rate, pager, deb, client>>

\* a click on a room of the list the form was rendered with
SetSelectedRoom(roomId) ==
    /\ FormMounted
    /\ ~form.isSuccess
    /\ Rows(FormBrowser, roomId) # {}
    /\ form' = [form EXCEPT !.selectedRoom = Some(roomId)]
    /\ UNCHANGED <<rooms, reservations, blockedDates, now, ret, browser,
                   rate, pager, deb, client>>

\* date.toISOString().split("T")[0] of the local midnight of a day: the day
\* before when the zone is ahead of UTC at that midnight
FormISODate(day, aheadOfUTC) ==
    ToISODate(DateParse(day) - (IF aheadOfUTC THEN 1 ELSE 0))

\* differenceInDays(checkOut, checkIn)
FormNights == DateParse(form.checkOut[1]) - DateParse(form.checkIn[1])

\* selectedRoomData ? selectedRoomData.price * nights : 0, with the room looked
\* up in the list the form was rendered with
FormTotalPrice ==
    LET found == Rows(FormBrowser, form.selectedRoom[1])
    IN  IF found # {} THEN (CHOOSE row \in found : TRUE).price * FormNights
        ELSE 0

\* onSubmit up to the await, reached through the submit button; each date is
\* converted with the zone offset of its own local midnight, and the two
\* offsets differ when daylight saving time changes between them
OnSubmit(guestEmail, aheadIn, aheadOut) ==
    /\ FormMounted
    /\ ~form.isSuccess
    /\ ~form.isSubmitting
    /\ form.checkIn # Undefined
    /\ form.checkOut # Undefined
    /\ form.selectedRoom # Undefined
    /\ form.checkIn = form.checkOut => aheadIn = aheadOut
    /\ Len(client.sent) < MaxSent
    /\ form' = [form EXCEPT !.isSubmitting = TRUE]
    /\ client' = [client EXCEPT !.sent =
           Append(@, Request(FormBrowser, "create", form.selectedRoom[1], "",
                             NoUpdates, guestEmail,
                             <<FormISODate(form.checkIn[1], aheadIn),
                               FormISODate(form.checkOut[1], aheadOut)>>,
                             FormTotalPrice))]
    /\ UNCHANGED <<rooms, reservations, blockedDates, now, ret, browser, rate,
                   pager, deb>>

\* the button of the success screen
NewBooking ==
    /\ FormMounted
    /\ form.isSuccess
    /\ form' = [form EXCEPT !.isSuccess = FALSE]
    /\ UNCHANGED <<rooms, reservations, blockedDates, now, ret, browser,
                   rate, pager, deb, client>>

\* one room, switched on and off by the administrator, and one guest
NextForm ==
    \/ rooms = <<>> /\ RoomsCreate(1, SeedPrice) /\ UNCHANGED <<browser, widgets>>
    \/ \E r \in 1..Len(rooms), u \in GatePatches :
           RoomsUpdate(r, u) /\ UNCHANGED <<browser, widgets>>
    \/ OpenPage(FormBrowser, "booking")
    \/ DeliverRooms(FormBrowser)
    \/ \E range \in CalendarRanges : HandleSelect(range)
    \/ \E r \in 1..MaxRooms : SetSelectedRoom(r)
    \/ /\ client.sent = <<>>
       /\ \E aheadIn, aheadOut \in BOOLEAN : OnSubmit(AvailEmail, aheadIn, aheadOut)
    \/ \E k \in 1..MaxSent : RunSent(k)
    \/ \E k \in 1..MaxSent : Answered(k)
    \/ NewBooking

SpecForm == Init /\ [][NextForm]_vars

\* C21: every reservation submitted through the booking form has its checkIn
\* strictly before its checkOut.
C21_FormStayOrdered ==
    \A i \in ResIds : StrLess(reservations[i].checkIn, reservations[i].checkOut)

\* C23: every reservation the booking form submits is for a room that
\* getAvailableRooms returns for the submitted stay at that time.
C23_FormRoomAvailable ==
    [][\A aheadIn, aheadOut \in BOOLEAN :
          OnSubmit(AvailEmail, aheadIn, aheadOut)
          => Includes(getAvailableRooms(FormISODate(form.checkIn[1], aheadIn),
                                        FormISODate(form.checkOut[1], aheadOut)),
                      form.selectedRoom[1])]_vars

(***************************************************************************)
(* SpecRate: the route GET /api/exchange-rate.  The handler awaits the     *)
(* upstream fetch and then the body of the response, so a request is three *)
(* steps: GetStart up to the fetch, GetFetched from the fetch's outcome up *)
(* to response.json(), GetFinish from the parsed body on; other requests   *)
(* run in between.                                                         *)
(* A number is sign * m * 10^e with m not a multiple of ten, or an         *)
(* infinity: the fallback 0.054 is 54 * 10^-3.  A string is the sequence   *)
(* of its characters.                                                      *)
(***************************************************************************)
MaxHours == 2
MaxInflight == 2

CACHE_DURATION == 60 * 60 * 1000

FallbackBaseLine == 54
FallbackBuyRate == 53
FallbackSellRate == 55

\* the clock advances by half the cache duration
ClockStep == CACHE_DURATION \div 2

RateTick ==
    /\ now + ClockStep <= MaxHours * CACHE_DURATION
    /\ now' = now + ClockStep
    /\ UNCHANGED <<rooms, reservations, blockedDates, ret, browser, widgets>>

\* the values of the currency query parameter
CurrencyParams == {Undefined, Some(""), Some("VND"), Some("USD")}

\* a JSON value the upstream body parses to, with what data.length reads on
\* it: an array of rows; null, which stands for every value that !data holds
\* of (null, false, 0, the empty string); or a value that is no array, which
\* stands for the objects, the non-empty strings, true and the numbers
\* other than 0, and has a length (an object with a property length, a
\* string) or none
JsonArray(rows) == [type |-> "array", rows |-> rows, length |-> Some(Len(rows))]
JsonNull == [type |-> "null", rows |-> <<>>, length |-> Undefined]
JsonObject(length) == [type |-> "object", rows |-> <<>>, length |-> length]

\* a row of the array: null, or an object whose cur_unit, deal_bas_r, ttb and
\* tts each are a string or not there
NullRow == Undefined
Row(cur_unit, deal_bas_r, ttb, tts) ==
    Some([cur_unit |-> cur_unit, deal_bas_r |-> deal_bas_r, ttb |-> ttb,
          tts |-> tts])

\* what the upstream answers with an ok response
UpstreamData ==
    { JsonNull,
      JsonObject(Undefined),
      JsonObject(Some(0)),
      JsonArray(<<>>),
      JsonArray(<< Row(Some("VND"), Some(<<"5", ".", "4", "3">>),
                       Some(<<"5", ".", "3", "7">>), Some(<<"5", ".", "4", "8">>)) >>),
      JsonArray(<< Row(Some("USD"), Some(<<"1", ",", "3", "0", "0">>),
                       Some(<<"1", ".", "2", "e", "-", "3", "2", "3">>),
                       Some(<<" ", "U+3000", "1", ",", "3", "1", "3">>)),
                   Row(Some("VND"), Some(<<"5", ".", "5">>), Some(<<"5", ".", "4">>),
                       Some(<<"5", ".", "6">>)) >>),
      JsonArray(<< Row(Some("USD"), Some(<<"1", "e", "3">>), Some(<<"-", "5">>),
                       Some(<<"I", "n", "f", "i", "n", "i", "t", "y">>)),
                   Row(Some("VND"), Undefined, Undefined, Undefined) >>),
      JsonArray(<< NullRow >>) }

\* await fetch(...): the fetch rejects, or resolves to a response that is not
\* ok or is ok
FetchOutcomes == {"throw", "not_ok", "ok"}

\* await response.json(): the body is no JSON and the call rejects, or the
\* parsed body
BodyOutcomes ==
    { [kind |-> "throw", data |-> JsonNull] }
        \cup { [kind |-> "ok", data |-> d] : d \in UpstreamData }

\* !data || data.length === 0
NoData(data) == data.type = "null" \/ data.length = Some(0)

DigitChars == <<"0", "1", "2", "3", "4", "5", "6", "7", "8", "9">>

IsDigit(c) == \E k \in 1..10 : DigitChars[k] = c

DigitValue(c) == (CHOOSE k \in 1..10 : DigitChars[k] = c) - 1

\* rateString.replace(/,/g, "")
StripCommas(chars) == SelectSeq(chars, LAMBDA c : c # ",")

\* the white space parseFloat skips in front, the 25 characters of
\* StrWhiteSpaceChar.  Nine are written as they are: space, tab, line feed,
\* carriage return, form feed, line tabulation U+000B, no-break space
\* U+00A0, U+FEFF and ogham space mark U+1680.  The sixteen from U+2000 on
\* cannot be written in a string of the module: in a sequence of characters
\* each of them is the element that spells its code point, "U+3000" for the
\* ideographic space.
WhiteSpaceFrom2000 ==
    {"U+2000", "U+2001", "U+2002", "U+2003", "U+2004", "U+2005", "U+2006",
     "U+2007", "U+2008", "U+2009", "U+200A", "U+2028", "U+2029", "U+202F",
     "U+205F", "U+3000"}

WhiteSpace ==
    {" ", "\t", "\n", "\r", "\f", "", " ", "﻿", " "} \cup WhiteSpaceFrom2000

RECURSIVE TrimStart(_)
TrimStart(chars) ==
    IF chars # <<>> /\ Head(chars) \in WhiteSpace THEN TrimStart(Tail(chars))
    ELSE chars

\* the number of leading digits of chars
RECURSIVE CountDigits(_)
CountDigits(chars) ==
    IF chars = <<>> \/ ~IsDigit(Head(chars)) THEN 0
    ELSE 1 + CountDigits(Tail(chars))

\* the value of the digits chars
RECURSIVE DigitsValue(_, _)
DigitsValue(chars, acc) ==
    IF chars = <<>> THEN acc
    ELSE DigitsValue(Tail(chars), 10 * acc + DigitValue(Head(chars)))

\* chars without its first n characters
Drop(chars, n) == SubSeq(chars, n + 1, Len(chars))

StartsWith(chars, prefix) ==
    Len(chars) >= Len(prefix) /\ SubSeq(chars, 1, Len(prefix)) = prefix

RECURSIVE Pow10(_)
Pow10(n) == IF n <= 0 THEN 1 ELSE 10 * Pow10(n - 1)

\* the number of digits of m > 0
RECURSIVE NumDigits(_)
NumDigits(m) == IF m < 10 THEN 1 ELSE 1 + NumDigits(m \div 10)

Zero == [sign |-> 1, m |-> 0, e |-> 0, inf |-> FALSE]

Infinite(sign) == [sign |-> sign, m |-> 0, e |-> 0, inf |-> TRUE]

\* sign * m * 10^e without the trailing zeros of m
RECURSIVE Number(_, _, _)
Number(sign, m, e) ==
    IF m = 0 THEN [Zero EXCEPT !.sign = sign]
    ELSE IF m % 10 = 0 THEN Number(sign, m \div 10, e + 1)
    ELSE [sign |-> sign, m |-> m, e |-> e, inf |-> FALSE]

\* a decimal of order 308 with the digits m is an infinity as a double from
\* 1.797693134862315807...e308 on, half a step above the largest double
\* 1.7976931348623157e308: with the ten digits the model holds that is from
\* 1.797693135e308 on, 1.79769314e308 with nine
RoundsToInfinity(m) ==
    IF NumDigits(m) >= 10 THEN m >= 1797693135
    ELSE m * Pow10(9 - NumDigits(m)) >= 179769314

\* the digits of a natural number, the lowest first
RECURSIVE Digits(_)
Digits(n) == IF n = 0 THEN <<>> ELSE <<n % 10>> \o Digits(n \div 10)

RECURSIVE FromDigits(_)
FromDigits(digits) ==
    IF digits = <<>> THEN 0 ELSE Head(digits) + 10 * FromDigits(Tail(digits))

\* digits * f + carry for f below 2^31, digit by digit
RECURSIVE MulSmall(_, _, _)
MulSmall(digits, f, carry) ==
    IF digits = <<>> THEN Digits(carry)
    ELSE LET low == Head(digits) * (f % 10) + carry
         IN  <<low % 10>>
                 \o MulSmall(Tail(digits), f, Head(digits) * (f \div 10) + low \div 10)

\* the doubles below 2.2250738585072014e-308 are the multiples of 2^-1074:
\* 10^-324 / 2^-1074 = 0.202402253307310618352495..., lowest digit first
SubnormalsPerUnit ==
    <<5, 9, 4, 2, 5, 3, 8, 1, 6, 0, 1, 3, 7, 0, 3, 3, 5, 2, 2, 0, 4, 2, 0, 2>>

\* 2^-1074 / 10^-324 = 4.940656458412465441765687..., lowest digit first
SubnormalUnit ==
    <<7, 8, 6, 5, 6, 7, 1, 4, 4, 5, 6, 4, 2, 1, 4, 8, 5, 4, 6, 5, 6, 0, 4, 9, 4>>

\* product / 10^dropped rounded to an integer
RoundAt(product, dropped) ==
    FromDigits(Drop(product, dropped))
        + (IF Len(product) >= dropped /\ product[dropped] >= 5 THEN 1 ELSE 0)

\* the multiple of 2^-1074 nearest to m * 10^(-324 - j), for m below 2^31:
\* m * 10^-j * 0.2024... rounded to an integer
NearestSubnormal(m, j) ==
    IF j >= 10 THEN 0
    ELSE RoundAt(MulSmall(SubnormalsPerUnit, m, 0), Len(SubnormalsPerUnit) + j)

\* the nearest double of c * 10^(x - 324) is k * 2^-1074
Gives(c, x, k) == c > 0 /\ NearestSubnormal(c, -x) = k

\* the decimal with the fewest digits whose nearest double is k * 2^-1074,
\* and of these the one nearest to it, as the number is printed: with p
\* digits it is one of the two multiples of 10^x around v = k * 2^-1074
RECURSIVE Shortest(_, _, _, _)
Candidate(sign, k, v, p, x, below, validBelow, validAbove, nearerAbove) ==
    IF validBelow /\ (~validAbove \/ ~nearerAbove) THEN Number(sign, below, x - 324)
    ELSE IF validAbove THEN Number(sign, below + 1, x - 324)
    ELSE Shortest(sign, k, v, p + 1)

Around(sign, k, v, p, x, below) ==
    Candidate(sign, k, v, p, x, below, Gives(below, x, k), Gives(below + 1, x, k),
              v[Len(SubnormalUnit) - 1 + x] >= 5)

AtExponent(sign, k, v, p, x) ==
    Around(sign, k, v, p, x, FromDigits(Drop(v, Len(SubnormalUnit) - 1 + x)))

Shortest(sign, k, v, p) ==
    AtExponent(sign, k, v, p, (Len(v) - Len(SubnormalUnit)) - p + 1)

\* the double that is k times 2^-1074
Subnormal(sign, k) ==
    IF k = 0 THEN [Zero EXCEPT !.sign = sign]
    ELSE Shortest(sign, k, MulSmall(SubnormalUnit, k, 0), 1)

\* the double nearest to the number n, written as the shortest decimal that
\* gives it: beyond 1.7976931348623157e308 an infinity, up to half of 5e-324
\* a zero, and the nearest multiple of 2^-1074 for a decimal with digits
\* below 10^-323; any other decimal of up to ten digits is its own double.
\* The digits m of a number are an integer below 2^31.
ToDouble(n) ==
    LET order == n.e + NumDigits(n.m) - 1
    IN  IF n.m = 0 THEN n
        ELSE IF order > 308 \/ (order = 308 /\ RoundsToInfinity(n.m))
        THEN Infinite(n.sign)
        ELSE IF n.e > -324 THEN n
        ELSE Subnormal(n.sign, NearestSubnormal(n.m, -324 - n.e))

NaN == [sign |-> 0, m |-> 0, e |-> 0, inf |-> FALSE]

\* the exponent: e or E, a sign and digits, when digits follow
ExponentPart(afterFrac) ==
    LET marked == afterFrac # <<>> /\ Head(afterFrac) \in {"e", "E"}
        afterMark == IF marked THEN Tail(afterFrac) ELSE <<>>
        expSigned == afterMark # <<>> /\ Head(afterMark) \in {"+", "-"}
        expBody == IF expSigned THEN Tail(afterMark) ELSE afterMark
    IN  (IF expSigned /\ Head(afterMark) = "-" THEN -1 ELSE 1)
            * DigitsValue(SubSeq(expBody, 1, CountDigits(expBody)), 0)

\* the digits after the integer digits: a point and digits, then the exponent
FractionPart(sign, intDigits, afterInt, nFrac) ==
    IF intDigits = <<>> /\ nFrac = 0 THEN NaN
    ELSE ToDouble(Number(sign,
                         DigitsValue(intDigits \o SubSeq(afterInt, 2, 1 + nFrac), 0),
                         ExponentPart(IF afterInt # <<>> /\ Head(afterInt) = "."
                                      THEN Drop(afterInt, 1 + nFrac) ELSE afterInt)
                             - nFrac))

IntegerPart(sign, body, nInt) ==
    FractionPart(sign, SubSeq(body, 1, nInt), Drop(body, nInt),
                 IF Drop(body, nInt) # <<>> /\ body[nInt + 1] = "."
                 THEN CountDigits(Drop(body, nInt + 1)) ELSE 0)

\* the literal after its sign: Infinity or a decimal
Unsigned(sign, body) ==
    IF StartsWith(body, <<"I", "n", "f", "i", "n", "i", "t", "y">>)
    THEN Infinite(sign)
    ELSE IntegerPart(sign, body, CountDigits(body))

Signed(trimmed) ==
    IF trimmed # <<>> /\ Head(trimmed) \in {"+", "-"}
    THEN Unsigned(IF Head(trimmed) = "-" THEN -1 ELSE 1, Tail(trimmed))
    ELSE Unsigned(1, trimmed)

\* parseFloat(chars): the longest prefix that is a decimal literal after the
\* white space in front, NaN if there is none
parseFloat(chars) == Signed(TrimStart(chars))

\* parsed || 0: NaN and the two zeros give 0
OrZero(parsed) ==
    IF parsed = NaN \/ (parsed.m = 0 /\ ~parsed.inf) THEN Zero ELSE parsed

\* parseFloat(cleaned) || 0
parseRate(rateString) == OrZero(parseFloat(StripCommas(rateString)))

\* a number in a JSON body: null for the two infinities
JsonNumber(n) == IF n.inf THEN Infinite(1) ELSE n

\* rates.find((item) => item.cur_unit === currencyCode): the index, 0 if none,
\* -1 if it throws, which it does on what is no array and on a null row
RECURSIVE FindFrom(_, _, _)
FindFrom(rows, currencyCode, k) ==
    IF k > Len(rows) THEN 0
    ELSE IF rows[k] = NullRow THEN -1
    ELSE IF rows[k][1].cur_unit = Some(currencyCode) THEN k
    ELSE FindFrom(rows, currencyCode, k + 1)

FindRate(rates, currencyCode) ==
    IF rates.type # "array" THEN -1 ELSE FindFrom(rates.rows, currencyCode, 1)

\* parseRate throws on what is no string
RowThrows(item) ==
    item.deal_bas_r = Undefined \/ item.ttb = Undefined \/ item.tts = Undefined

\* the JSON bodies of the route with their status
RateResponse(item, cached) ==
    [status |-> 200, currencyCode |-> item.cur_unit,
     baseLine |-> Some(JsonNumber(parseRate(item.deal_bas_r[1]))),
     buyRate |-> Some(JsonNumber(parseRate(item.ttb[1]))),
     sellRate |-> Some(JsonNumber(parseRate(item.tts[1]))),
     cached |-> Some(cached), fallback |-> Undefined, error |-> Undefined]

FallbackResponse(error) ==
    [status |-> 200, currencyCode |-> Some("VND"),
     baseLine |-> Some(Number(1, FallbackBaseLine, -3)),
     buyRate |-> Some(Number(1, FallbackBuyRate, -3)),
     sellRate |-> Some(Number(1, FallbackSellRate, -3)),
     cached |-> Undefined, fallback |-> Some(TRUE), error |-> error]

ErrorResponse(status, error) ==
    [status |-> status, currencyCode |-> Undefined, baseLine |-> Undefined,
     buyRate |-> Undefined, sellRate |-> Undefined,
     cached |-> Undefined, fallback |-> Undefined, error |-> Some(error)]

\* the answer for the row found at index found of rates; the catch block
\* answers when find or parseRate threw
AnswerFound(rates, found, cached) ==
    IF found = -1 \/ RowThrows(rates.rows[found][1])
    THEN FallbackResponse(Some("fetch_failed"))
    ELSE RateResponse(rates.rows[found][1], cached)

\* searchParams.get("currency") || "VND"
CurrencyCode(param) ==
    IF param = Undefined \/ param = Some("") THEN "VND" ELSE param[1]

\* cachedData && now - cachedData.timestamp < CACHE_DURATION
CacheFresh ==
    /\ rate.cachedData # Undefined
    /\ now - rate.cachedData[1].timestamp < CACHE_DURATION

\* GET up to the await of the fetch: the answer without a key, the answer from
\* the cache, or a request to the upstream that keeps its currency and its now
GetStart(param) ==
    LET currencyCode == CurrencyCode(param)
        found == IF CacheFresh
                 THEN FindRate(rate.cachedData[1].rates, currencyCode) ELSE 0
    IN  /\ IF ~rate.apiKey
           THEN rate' = [rate EXCEPT !.resp = Some(ErrorResponse(500, "no_api_key"))]
           ELSE IF found # 0
           THEN rate' = [rate EXCEPT !.resp =
                            Some(AnswerFound(rate.cachedData[1].rates, found, TRUE))]
           ELSE /\ Len(rate.inflight) < MaxInflight
                /\ rate' = [rate EXCEPT !.inflight =
                               Append(@, [currencyCode |-> currencyCode, now |-> now,
                                          phase |-> "fetch"])]
        /\ UNCHANGED <<rooms, reservations, blockedDates, now, ret, browser,
                       form, pager, deb, client>>

\* GET from the outcome of the fetch up to the await of the body, for the
\* i-th request in flight: the catch block answers a rejected fetch, a
\* response that is not ok is answered with the fallback, and a response that
\* is ok leaves the request waiting for response.json()
GetFetched(i, outcome) ==
    /\ i \in 1..Len(rate.inflight)
    /\ rate.inflight[i].phase = "fetch"
    /\ rate' =
          IF outcome = "ok"
          THEN [rate EXCEPT !.inflight[i].phase = "body"]
          ELSE [rate EXCEPT
                  !.inflight = RemoveAt(@, i),
                  !.resp = IF outcome = "throw"
                           THEN Some(FallbackResponse(Some("fetch_failed")))
                           ELSE Some(FallbackResponse(Undefined))]
    /\ UNCHANGED <<rooms, reservations, blockedDates, now, ret, browser,
                   form, pager, deb, client>>

\* GET from the outcome of response.json() on, for the i-th request in
\* flight; the timestamp written is the now the request read at its start
GetFinish(i, body) ==
    /\ i \in 1..Len(rate.inflight)
    /\ rate.inflight[i].phase = "body"
    /\ LET request == rate.inflight[i]
           stored == body.kind = "ok" /\ ~NoData(body.data)
           found == FindRate(body.data, request.currencyCode)
           written == Some([rates |-> body.data, timestamp |-> request.now])
       IN  rate' =
             [rate EXCEPT
                !.inflight = RemoveAt(@, i),
                !.cachedData = IF stored THEN written ELSE @,
                !.resp =
                    IF body.kind = "throw"
                    THEN Some(FallbackResponse(Some("fetch_failed")))
                    ELSE IF ~stored
                    THEN Some(FallbackResponse(Undefined))
                    ELSE IF found = 0
                    THEN Some(ErrorResponse(404, "rate_not_found"))
                    ELSE Some(AnswerFound(body.data, found, FALSE))]
    /\ UNCHANGED <<rooms, reservations, blockedDates, now, ret, browser,
                   form, pager, deb, client>>

\* the server starts with or without KOREAEXIM_API_KEY in its environment
InitRate ==
    /\ rooms = <<>>
    /\ reservations = <<>>
    /\ blockedDates = <<>>
    /\ now = 0
    /\ ret = Returned(0, NoEmail, "none")
    /\ auth = [c \in Emails |-> FALSE]
    /\ seen = [c \in Emails |-> [avail |-> Undefined, stats |-> Undefined]]
    /\ caller = NoEmail
    /\ form = [checkIn |-> Undefined, checkOut |-> Undefined,
               selectedRoom |-> Undefined, isSubmitting |-> FALSE,
               isSuccess |-> FALSE]
    /\ \E key \in BOOLEAN :
           rate = [apiKey |-> key, cachedData |-> Undefined, inflight |-> <<>>,
                   resp |-> Undefined]
    /\ pager = [currentPage |-> 1, itemsPerPage |-> DefaultItemsPerPage,
                items |-> <<>>,
                seen |-> [currentPage |-> 1, itemsPerPage |-> DefaultItemsPerPage]]
    /\ deb = [timeoutId |-> 0, queued |-> Undefined, timers |-> {},
              calls |-> <<>>, mounted |-> TRUE, ran |-> <<>>]
    /\ client = [sent |-> <<>>,
                 page |-> [c \in Emails |->
                              [at |-> "other", statusFilter |-> "all",
                               list |-> Undefined, isSeeding |-> FALSE]]]

NextRate ==
    \/ RateTick
    \/ \E param \in CurrencyParams : GetStart(param)
    \/ \E i \in 1..MaxInflight : \E outcome \in FetchOutcomes : GetFetched(i, outcome)
    \/ \E i \in 1..MaxInflight : \E body \in BodyOutcomes : GetFinish(i, body)

SpecRate == InitRate /\ [][NextRate]_vars

\* the age of the cache
CacheAge == now - rate.cachedData[1].timestamp

\* C26: a request that finds the cache younger than one hour and holding the
\* requested currency is answered from it with cached: true and starts no
\* upstream request; a request that finds the cache one hour old or older
\* starts an upstream request.
C26_CacheWithinHour ==
    [][\A param \in CurrencyParams :
          (GetStart(param) /\ rate.apiKey /\ rate.cachedData # Undefined)
          => LET rates == rate.cachedData[1].rates
                 present == /\ rates.type = "array"
                            /\ \E k \in 1..Len(rates.rows) :
                                   /\ rates.rows[k] # NullRow
                                   /\ rates.rows[k][1].cur_unit
                                          = Some(CurrencyCode(param))
             IN  /\ (CacheAge < 60 * 60 * 1000 /\ present)
                    => /\ rate'.resp # Undefined
                       /\ rate'.resp[1].currencyCode = Some(CurrencyCode(param))
                       /\ rate'.resp[1].cached = Some(TRUE)
                       /\ rate'.inflight = rate.inflight
                       /\ rate'.cachedData = rate.cachedData
                 /\ CacheAge >= 60 * 60 * 1000
                    => /\ Len(rate'.inflight) = Len(rate.inflight) + 1
                       /\ rate'.resp = rate.resp]_vars

\* the fetch of a request failed: it threw or answered not ok
FetchFailed(outcome) == outcome \in {"throw", "not_ok"}

\* the body of the i-th request failed: it was no JSON, held no data, or held
\* data on which the handler threw
UpstreamFailed(i, body) ==
    \/ body.kind = "throw"
    \/ NoData(body.data)
    \/ LET found == FindRate(body.data, rate.inflight[i].currencyCode)
       IN  found = -1 \/ (found > 0 /\ RowThrows(body.data.rows[found][1]))

\* the answer of the fallback: status 200, baseLine 0.054, fallback: true
AnsweredFallback ==
    /\ rate'.resp # Undefined
    /\ rate'.resp[1].status = 200
    /\ rate'.resp[1].baseLine = Some(Number(1, 54, -3))
    /\ rate'.resp[1].fallback = Some(TRUE)
    /\ rate'.resp[1].cached = Undefined

\* C27: a request whose upstream call fails is answered with status 200, the
\* baseLine 0.054 and fallback: true, and leaves the cache as it was; the
\* cache changes only in a request whose upstream call gave a non-empty
\* array, which it then holds; and an answer with cached: true is never the
\* fallback.
C27_FallbackLeavesCache ==
    /\ [][/\ \A i \in 1..MaxInflight : \A outcome \in FetchOutcomes :
                (GetFetched(i, outcome) /\ FetchFailed(outcome))
                => AnsweredFallback /\ rate'.cachedData = rate.cachedData
          /\ \A i \in 1..MaxInflight : \A body \in BodyOutcomes :
                (GetFinish(i, body) /\ UpstreamFailed(i, body))
                => AnsweredFallback /\ rate'.cachedData = rate.cachedData
          /\ rate'.cachedData # rate.cachedData
                => \E i \in 1..MaxInflight : \E body \in BodyOutcomes :
                       /\ GetFinish(i, body)
                       /\ ~UpstreamFailed(i, body)
                       /\ rate'.cachedData # Undefined
                       /\ rate'.cachedData[1].rates = body.data]_vars
    /\ []((rate.resp # Undefined /\ rate.resp[1].cached = Some(TRUE))
             => rate.resp[1].fallback = Undefined)

(***************************************************************************)
(* SpecPager: the hook usePagination over an items array that its caller   *)
(* replaces.  pager.currentPage and pager.itemsPerPage are the two         *)
(* useState values as set last; pager.seen holds them as the last render   *)
(* read them, and pager.items is the items argument of that render.  The   *)
(* values the hook returns, and the callbacks it hands out, are those of   *)
(* the last render: they are the operators over pager.seen and pager.items *)
(* and change at a render only.                                            *)
(***************************************************************************)
MaxItems == 6
MaxCount == 3

\* Math.max and Math.min of two integers
Max(a, b) == IF a >= b THEN a ELSE b

Min(a, b) == IF a <= b THEN a ELSE b

\* Math.ceil(a / b) for a >= 0 and b >= 1
CeilDiv(a, b) == (a + b - 1) \div b

totalPages == Max(1, CeilDiv(Len(pager.items), pager.seen.itemsPerPage))

validCurrentPage_NoUpperClamp ==
    IF pager.seen.currentPage < 1 THEN 1
    ELSE pager.seen.currentPage

validCurrentPage ==
    IF pager.seen.currentPage > totalPages THEN totalPages
    ELSE IF pager.seen.currentPage < 1 THEN 1
    ELSE pager.seen.currentPage

startIndex == (validCurrentPage - 1) * pager.seen.itemsPerPage

endIndex == Min(startIndex + pager.seen.itemsPerPage, Len(pager.items))

\* Array.prototype.slice(start, end) for start, end >= 0
Slice(seq, start, end) ==
    LET from == Min(start, Len(seq))
        to == Min(end, Len(seq))
    IN  IF from >= to THEN <<>> ELSE [k \in 1..(to - from) |-> seq[from + k]]

paginatedItems == Slice(pager.items, startIndex, endIndex)

UnchangedByPager ==
    UNCHANGED <<rooms, reservations, blockedDates, now, ret, browser, form,
                rate, deb, client>>

\* the hook's first render with the options initialPage and itemsPerPage
PagerMounted(initialPage, itemsPerPage) ==
    [currentPage |-> initialPage, itemsPerPage |-> itemsPerPage, items |-> <<>>,
     seen |-> [currentPage |-> initialPage, itemsPerPage |-> itemsPerPage]]

GoToPage(page) ==
    /\ pager' = [pager EXCEPT !.currentPage = Max(1, Min(page, totalPages))]
    /\ UnchangedByPager

GoToNextPage ==
    /\ pager' = IF validCurrentPage < totalPages
                THEN [pager EXCEPT !.currentPage = validCurrentPage + 1]
                ELSE pager
    /\ UnchangedByPager

GoToPrevPage ==
    /\ pager' = IF validCurrentPage > 1
                THEN [pager EXCEPT !.currentPage = validCurrentPage - 1]
                ELSE pager
    /\ UnchangedByPager

GoToFirstPage ==
    /\ pager' = [pager EXCEPT !.currentPage = 1]
    /\ UnchangedByPager

GoToLastPage ==
    /\ pager' = [pager EXCEPT !.currentPage = totalPages]
    /\ UnchangedByPager

SetItemsPerPage(count) ==
    /\ pager' = [pager EXCEPT !.itemsPerPage = Max(1, count), !.currentPage = 1]
    /\ UnchangedByPager

\* the state as a render reads it
PagerState == [currentPage |-> pager.currentPage, itemsPerPage |-> pager.itemsPerPage]

\* the render that follows the calls of an event handler that set a state
RenderPager ==
    /\ pager.seen # PagerState
    /\ pager' = [pager EXCEPT !.seen = PagerState]
    /\ UnchangedByPager

\* the caller renders the hook with another items array: the items numbered
\* from first on, length of them
SetItems(first, length) ==
    /\ pager' = [pager EXCEPT !.items = [k \in 1..length |-> first + k - 1],
                              !.seen = PagerState]
    /\ UnchangedByPager

\* the hook is mounted with the default options or with others
InitPager ==
    /\ rooms = <<>>
    /\ reservations = <<>>
    /\ blockedDates = <<>>
    /\ now = 0
    /\ ret = Returned(0, NoEmail, "none")
    /\ auth = [c \in Emails |-> FALSE]
    /\ seen = [c \in Emails |-> [avail |-> Undefined, stats |-> Undefined]]
    /\ caller = NoEmail
    /\ form = FormInit
    /\ rate = [apiKey |-> TRUE, cachedData |-> Undefined, inflight |-> <<>>,
               resp |-> Undefined]
    /\ \E initialPage \in {-1, 1, 3} : \E itemsPerPage \in {2, DefaultItemsPerPage} :
           pager = PagerMounted(initialPage, itemsPerPage)
    /\ deb = [timeoutId |-> 0, queued |-> Undefined, timers |-> {},
              calls |-> <<>>, mounted |-> TRUE, ran |-> <<>>]
    /\ client = [sent |-> <<>>,
                 page |-> [c \in Emails |->
                              [at |-> "other", statusFilter |-> "all",
                               list |-> Undefined, isSeeding |-> FALSE]]]

NextPager ==
    \/ \E page \in (-1)..(MaxItems + 2) : GoToPage(page)
    \/ GoToNextPage
    \/ GoToPrevPage
    \/ GoToFirstPage
    \/ GoToLastPage
    \/ \E count \in (-1)..MaxCount : SetItemsPerPage(count)
    \/ RenderPager
    \/ \E first \in 1..2 : \E length \in 0..MaxItems : SetItems(first, length)

SpecPager == InitPager /\ [][NextPager]_vars

\* C28: with itemsPerPage >= 1 the hook reports totalPages >= 1 and a
\* currentPage from 1 to totalPages, and paginatedItems is the part of items
\* from startIndex up to, not including, endIndex, of at most itemsPerPage
\* elements.
C28_PageInRange ==
    pager.seen.itemsPerPage >= 1
    => /\ totalPages >= 1
       /\ 1 <= validCurrentPage
       /\ validCurrentPage <= totalPages
       /\ 0 <= startIndex
       /\ startIndex <= endIndex
       /\ endIndex <= Len(pager.items)
       /\ Len(paginatedItems) = endIndex - startIndex
       /\ \A k \in 1..Len(paginatedItems) :
              paginatedItems[k] = pager.items[startIndex + k]
       /\ Len(paginatedItems) <= pager.seen.itemsPerPage

\* the items array shrank below the page the render read, and the last page
\* still shows items
C28_Witness ==
    /\ pager.seen.currentPage > totalPages
    /\ totalPages > 1
    /\ paginatedItems # <<>>
    /\ Len(paginatedItems) < pager.seen.itemsPerPage

(***************************************************************************)
(* SpecDebounce: the hook useDebouncedCallback in a mounted component.     *)
(* deb.timeoutId is the state the last render saw (0 for null), which the  *)
(* returned function and the effect clean-up of that render close over;    *)
(* deb.queued is the setTimeoutId waiting for the next render; deb.timers  *)
(* are the pending timers, named by the number of the call that set them;  *)
(* deb.calls and deb.ran log the calls made and the callback runs.         *)
(***************************************************************************)
MaxCalls == 3
MaxDebTime == 4
DebounceDelay == 2

DebArgs == {"a", "b"}

UnchangedByDebounce ==
    UNCHANGED <<rooms, reservations, blockedDates, ret, browser, form, rate,
                pager, client>>

\* clearTimeout(id)
ClearTimeout(timers, id) == { t \in timers : t.id # id }

\* time passes; setTimeout runs its function no earlier than the delay, so
\* the clock goes on while a timer is due
DebTick ==
    /\ now < MaxDebTime
    /\ now' = now + 1
    /\ UNCHANGED deb
    /\ UnchangedByDebounce

\* the function the hook returned at the last render, called with args; after
\* the unmount it still sets its timer, and setTimeoutId does nothing
DebouncedCall(args) ==
    /\ Len(deb.calls) < MaxCalls
    /\ LET newTimeoutId == Len(deb.calls) + 1
       IN  deb' = [deb EXCEPT
                     !.timers = ClearTimeout(@, deb.timeoutId)
                                    \cup {[id |-> newTimeoutId, args |-> args,
                                           due |-> now + DebounceDelay]},
                     !.queued = IF deb.mounted THEN Some(newTimeoutId) ELSE @,
                     !.calls = Append(@, [args |-> args, at |-> now])]
    /\ UNCHANGED now
    /\ UnchangedByDebounce

\* the render after setTimeoutId: the clean-up of the previous effect runs
\* with the timeoutId it closed over, then the new state is what is seen
Render ==
    /\ deb.mounted
    /\ deb.queued # Undefined
    /\ deb' = [deb EXCEPT
                 !.timers = IF deb.queued[1] # deb.timeoutId
                            THEN ClearTimeout(@, deb.timeoutId) ELSE @,
                 !.timeoutId = deb.queued[1],
                 !.queued = Undefined]
    /\ UNCHANGED now
    /\ UnchangedByDebounce

\* a due timer runs callback(...args)
TimerFires ==
    /\ \E t \in deb.timers :
           /\ t.due <= now
           /\ deb' = [deb EXCEPT
                        !.timers = @ \ {t},
                        !.ran = Append(@, [id |-> t.id, args |-> t.args,
                                           at |-> now, mounted |-> deb.mounted])]
    /\ UNCHANGED now
    /\ UnchangedByDebounce

\* the component unmounts: the clean-up of the last effect runs
Unmount ==
    /\ deb.mounted
    /\ deb' = [deb EXCEPT
                 !.timers = ClearTimeout(@, deb.timeoutId),
                 !.queued = Undefined,
                 !.mounted = FALSE]
    /\ UNCHANGED now
    /\ UnchangedByDebounce

NextDebounce ==
    \/ DebTick
    \/ \E args \in DebArgs : DebouncedCall(args)
    \/ Render
    \/ TimerFires
    \/ Unmount

SpecDebounce == Init /\ [][NextDebounce]_vars

\* C29: the callback runs only for a call that no later call followed within
\* the delay, with that call's arguments and the delay after it, never twice
\* for one call and never after unmount; and at most one timer is pending.
C29_LastOfBurstOnly ==
    /\ Cardinality(deb.timers) <= 1
    /\ \A k \in 1..Len(deb.ran) :
           LET run == deb.ran[k]
               call == deb.calls[run.id]
           IN  /\ run.args = call.args
               /\ run.at = call.at + DebounceDelay
               /\ run.mounted
               /\ \A j \in (run.id + 1)..Len(deb.calls) :
                      deb.calls[j].at >= run.at
               /\ \A j \in 1..Len(deb.ran) : deb.ran[j].id = run.id => j = k

(***************************************************************************)
(* SpecSeed: the mutation seedRooms with rooms.create and rooms.update.    *)
(* A Convex mutation is one transaction: seedRooms is one step.            *)
(***************************************************************************)
\* the administrator's switch of a room's isAvailable
SeedPatches ==
    [order : {Undefined}, price : {Undefined},
     isAvailable : {Some(b) : b \in BOOLEAN}]

\* seedRooms called directly and by the button of the admin rooms page
NextSeed ==
    \/ CallSeedRooms(AvailEmail) /\ UNCHANGED widgets
    \/ AdminLogin(AvailEmail, ADMIN_PASSWORD)
    \/ OpenPage(AvailEmail, "rooms")
    \/ DeliverRoomsAll(AvailEmail)
    \/ HandleSeedRooms(AvailEmail)
    \/ \E k \in 1..MaxSent : RunSent(k)
    \/ \E k \in 1..MaxSent : Answered(k)
    \/ \E o \in Orders : RoomsCreate(o, SeedPrice) /\ UNCHANGED <<browser, widgets>>
    \/ \E r \in 1..MaxRooms : \E updates \in SeedPatches :
           RoomsUpdate(r, updates) /\ UNCHANGED <<browser, widgets>>

SpecSeed == Init /\ [][NextSeed]_vars

\* C30: seedRooms on a table with a room leaves the table as it is and
\* returns the number of rooms in it; on the empty table it leaves six rooms,
\* all available, with the orders 1 to 6; and further seedRooms calls on the
\* table it leaves change nothing.
C30_SeedIdempotent ==
    [][SeedRooms
       => /\ Len(rooms) > 0 => (rooms' = rooms /\ ret'.id = Len(rooms))
          /\ rooms = <<>>
                => /\ Len(rooms') = 6
                   /\ \A k \in 1..6 : rooms'[k].isAvailable /\ rooms'[k].order = k
                   /\ ret'.id = 6
          /\ SeedRoomsTable(rooms') = rooms'
          /\ SeedRoomsTable(SeedRoomsTable(rooms')) = rooms'
          /\ ret'.error = "none"]_vars

\* seedRooms called again on the seeded table after a room was switched off:
\* the six rooms are as they were and the count returned is six
C30_Witness ==
    /\ Len(rooms) = 6
    /\ \E k \in 1..6 : ~rooms[k].isAvailable
    /\ \A k \in 1..6 : rooms[k].order = k
    /\ ret = Returned(6, NoEmail, "none")
====
